---------------------------- MODULE Spec2Model ----------------------------
(***************************************************************************)
(* A model of dumbhfdl.py, the frequency-picking harness for dumphfdl:     *)
(*   - FrequencyPool and balancing_iter (the bandwidth-constrained pool),  *)
(*   - GroundStation and GroundStationCache (the station registry),        *)
(*   - GroundStationWatcher (the periodic selection loop),                 *)
(*   - HFDLListener and PacketWatcher (the decoder's supervision).         *)
(* The pool, the registry and the supervisor each have a specification of  *)
(* their own, under which the variables of the other parts keep their      *)
(* initial values; the run command's specification joins the watcher, the  *)
(* registry and the supervisor's run task, and the event loop's            *)
(* specification takes the same tasks in the steps of their merges.        *)
(***************************************************************************)
EXTENDS Integers, Sequences, FiniteSets, TLC

VARIABLES
    \* FrequencyPool
    pool,               \* FrequencyPool.frequencies
    ignored_ranges,     \* FrequencyPool.ignored_ranges
    maximum_bandwidth,  \* FrequencyPool.maximum_bandwidth
    poolOp,             \* the last pool operation: its kind, whether it raised,
                        \* and whether it left a candidate out of the pool
    \* GroundStationCache
    ground_station_cache,   \* the registry: stations_by_id, stations_by_name,
                            \* last, path, and the writes of the last operation
    now,                \* the clock (Unix seconds)
    regOp,              \* the last registry operation, and what its update of
                        \* a station record found and did
    \* HFDLListener
    listener_frequencies,   \* HFDLListener.frequencies
    dumphfdl_task,      \* whether HFDLListener.dumphfdl_task is set
    runPc,              \* where HFDLListener.run is
    cmd,                \* the command line run has built
    process,            \* HFDLListener.process: NoProcess or a generation
    procState,          \* the decoder process itself: none, running, exited
    termAsked,          \* whether the decoder process was sent a signal to end
    killed,             \* HFDLListener.killed
    recoverable_error_count,    \* HFDLListener.recoverable_error_count
    packet_watcher,     \* whether HFDLListener.packet_watcher is watching
    fifo,               \* the telemetry pipes made so far, whether the newest
                        \* still exists, and the pipes a watcher task reads
    errWatchers,        \* the generations whose watch_stderr task is alive
    gen,                \* how many decoder processes were started
    supOp,              \* the last supervisor operation and what it did
    supHist,            \* what the supervisor was asked and did so far
    \* GroundStationWatcher and the run command
    watcher,            \* the watcher's configuration and its field last
    watchPc,            \* where GroundStationWatcher.run is
    watchOp,            \* the last refresh and what it did
    watchHist,          \* what the watcher computed and emitted so far
    \* the asyncio event loop of the run command
    eventLoop           \* which task is running, and how far the registry
                        \* merge of each task has got

poolVars == <<pool, ignored_ranges, maximum_bandwidth, poolOp>>

regVars == <<ground_station_cache, now, regOp>>

supVars == <<listener_frequencies, dumphfdl_task, runPc, cmd, process, procState,
             termAsked, killed, recoverable_error_count, packet_watcher,
             fifo, errWatchers, gen, supOp, supHist>>

watchVars == <<watcher, watchPc, watchOp, watchHist>>

loopVars == <<eventLoop>>

\* what the actions of one part leave alone
notPoolVars == <<regVars, supVars, watchVars, loopVars>>

notRegVars == <<poolVars, supVars, watchVars, loopVars>>

notSupVars == <<poolVars, regVars, watchVars, loopVars>>

vars == <<pool, ignored_ranges, maximum_bandwidth, poolOp,
          ground_station_cache, now, regOp,
          listener_frequencies, dumphfdl_task, runPc, cmd, process, procState,
          termAsked, killed, recoverable_error_count, packet_watcher,
          fifo, errWatchers, gen, supOp, supHist,
          watcher, watchPc, watchOp, watchHist, eventLoop>>

----------------------------------------------------------------------------
(* Bounds of the model *)

\* frequencies are 1..MaxFreq (kHz, scaled)
MaxFreq == 4
\* the longest candidate list passed to extend
MaxLen == 2
\* how many times the clock advances
MaxTicks == 1
\* how many decoder processes the supervisor starts
MaxGen == 2

Freqs == 1..MaxFreq

\* sequences over S of length at most n
SeqsUpTo(S, n) == UNION {[1..k -> S] : k \in 0..n}

SetOf(s) == {s[i] : i \in 1..Len(s)}

SetMax(S) == CHOOSE x \in S : \A y \in S : y <= x

SetMin(S) == CHOOSE x \in S : \A y \in S : x <= y

\* F of the value of v, with v worked out once
Let(v, F(_)) == CHOOSE r \in {F(x) : x \in {v}} : TRUE

Abs(x) == IF x < 0 THEN 0 - x ELSE x

----------------------------------------------------------------------------
(* FrequencyPool *)

\* FrequencyPool.__init__: "maximum_bandwidth or 2000"
DEFAULT_BANDWIDTH == 2000

BandwidthOrDefault(arg) == IF arg = 0 THEN DEFAULT_BANDWIDTH ELSE arg

\* python's None as a frequency handed to add
NoneFreq == 0

\* a pivot argument: <<>> is None, <<i>> is the explicit index i
PivotNone == <<>>

Pivots == {PivotNone, <<0 - 1>>, <<0>>, <<1>>}

\* bisect.insort on a sorted list: after every element <= x
Insort(s, x) ==
    LET i == Cardinality({j \in 1..Len(s) : s[j] <= x})
    IN  SubSeq(s, 1, i) \o <<x>> \o SubSeq(s, i + 1, Len(s))

filter_none(frequency) == frequency # NoneFreq

filter_duplicates(frequency, frequencies) == frequency \notin SetOf(frequencies)

filter_ignored_ranges(frequency, ranges) ==
    \A k \in 1..Len(ranges) :
        ~ (ranges[k][1] <= frequency /\ frequency <= ranges[k][2])

can_cover_bandwidth_NoLowCheck(frequency, others, maxbw) ==
    \/ others = <<>>
    \/ (others[1] <= frequency /\ frequency <= others[Len(others)])
    \/ others[1] > frequency
    \/ (others[Len(others)] < frequency /\ frequency - others[1] < maxbw)

can_cover_bandwidth(frequency, others, maxbw) ==
    \/ others = <<>>
    \/ (others[1] <= frequency /\ frequency <= others[Len(others)])
    \/ (others[1] > frequency /\ others[Len(others)] - frequency < maxbw)
    \/ (others[Len(others)] < frequency /\ frequency - others[1] < maxbw)

filter_bandwidth(frequency, frequencies, maxbw) ==
    can_cover_bandwidth(frequency, frequencies, maxbw)

\* FrequencyPool.add: the filters in their fixed order, then insort
PoolAdd(frequencies, frequency, ranges, maxbw) ==
    IF /\ filter_none(frequency)
       /\ filter_duplicates(frequency, frequencies)
       /\ filter_ignored_ranges(frequency, ranges)
       /\ filter_bandwidth(frequency, frequencies, maxbw)
    THEN Insort(frequencies, frequency)
    ELSE frequencies

\* sorted(sources, key=...) is stable: x goes after every element whose key
\* is not larger
InsertByDistance(sorted, x, pivot_freq) ==
    LET i == Cardinality({j \in 1..Len(sorted) :
                            Abs(sorted[j] - pivot_freq) <= Abs(x - pivot_freq)})
    IN  SubSeq(sorted, 1, i) \o <<x>> \o SubSeq(sorted, i + 1, Len(sorted))

RECURSIVE SortByDistance(_, _)
SortByDistance(sources, pivot_freq) ==
    IF sources = <<>> THEN <<>>
    ELSE InsertByDistance(SortByDistance(SubSeq(sources, 1, Len(sources) - 1), pivot_freq),
                          sources[Len(sources)], pivot_freq)

\* python's s[i] for i >= -1 on a sequence s; ok is FALSE for an IndexError
PyIndex(s, i) ==
    IF i >= 0
    THEN [ok |-> i < Len(s), val |-> IF i < Len(s) THEN s[i + 1] ELSE 0]
    ELSE [ok |-> Len(s) > 0, val |-> IF Len(s) > 0 THEN s[Len(s)] ELSE 0]

\* balancing_iter(sources, targets, pivot): the candidates ordered by distance
\* from the pivot frequency; ok is FALSE when it raises IndexError
balancing_iter(sources, targets, pivot) ==
    LET tg == IF targets = <<>> THEN sources ELSE targets
        pv == IF pivot = PivotNone THEN Len(tg) \div 2 ELSE pivot[1]
        pf == IF tg # <<>> /\ pv < Len(tg) THEN PyIndex(tg, pv)
              ELSE IF pv = 0 - 1 THEN PyIndex(sources, 0 - 1)
              ELSE PyIndex(sources, 0)
    IN  [ok |-> pf.ok,
         seq |-> IF pf.ok THEN SortByDistance(sources, pf.val) ELSE <<>>]

RECURSIVE AddAll(_, _, _, _)
AddAll(frequencies, cands, ranges, maxbw) ==
    IF cands = <<>> THEN frequencies
    ELSE AddAll(PoolAdd(frequencies, cands[1], ranges, maxbw),
                SubSeq(cands, 2, Len(cands)), ranges, maxbw)

\* FrequencyPool.extend
PoolExtend(frequencies, cands, pivot, ranges, maxbw) ==
    LET it == balancing_iter(cands, frequencies, pivot)
    IN  [ok |-> it.ok,
         pool |-> IF it.ok THEN AddAll(frequencies, it.seq, ranges, maxbw)
                  ELSE frequencies]

\* FrequencyPool.add_stations: extend per station, in order; an IndexError
\* of one extend ends the call with the pool as it then is
RECURSIVE PoolAddStations(_, _, _, _, _)
PoolAddStations(frequencies, stationFreqs, pivot, ranges, maxbw) ==
    IF stationFreqs = <<>> THEN [ok |-> TRUE, pool |-> frequencies]
    ELSE LET r == PoolExtend(frequencies, stationFreqs[1], pivot, ranges, maxbw)
         IN  IF r.ok
             THEN PoolAddStations(r.pool, SubSeq(stationFreqs, 2, Len(stationFreqs)),
                                  pivot, ranges, maxbw)
             ELSE r

----------------------------------------------------------------------------
(* GroundStation *)

\* 3 station updates per squitter, 1 squitter per HFDL frame (32s), every
\* other pseudoframe
SQUITTER_FRAME_TIME == 6 * 32 * 2

\* how long a station's data stays valid (seconds)
GS_EXPIRY == 2 * 3600

\* GroundStation.gsid of a record no update has been applied to ("unknown")
UNKNOWN == 0

\* GroundStation.name of such a record (None)
NoName == "None"

\* the class attributes of GroundStation: a record created by the defaultdict
DefaultStation ==
    [last_updated |-> 0, frequencies |-> <<>>, dirty |-> FALSE,
     temporary |-> FALSE, name |-> NoName, gsid |-> UNKNOWN]

\* GroundStation.__setattr__: a change of one of the four tracked fields
\* marks the record dirty and clears temporary
SetAttr(st, field, value) ==
    IF field \in {"last_updated", "frequencies", "name", "gsid"} /\ value # st[field]
    THEN [st EXCEPT ![field] = value, !.dirty = TRUE, !.temporary = FALSE]
    ELSE [st EXCEPT ![field] = value]

\* sorted(): ascending, duplicates kept
RECURSIVE SortAsc(_)
SortAsc(s) ==
    IF s = <<>> THEN <<>>
    ELSE Insort(SortAsc(SubSeq(s, 1, Len(s) - 1)), s[Len(s)])

is_new_pseudoframe_SameWindow(st, timestamp) ==
    (st.last_updated \div SQUITTER_FRAME_TIME) <= (timestamp \div SQUITTER_FRAME_TIME)

is_new_pseudoframe(st, timestamp) ==
    (st.last_updated \div SQUITTER_FRAME_TIME) < (timestamp \div SQUITTER_FRAME_TIME)

mark_clean(st) == SetAttr(st, "dirty", FALSE)

\* the four tracked assignments every accepted update makes, in code order
AssignAll(st, last_updated, gsid, name, frequencies) ==
    SetAttr(SetAttr(SetAttr(SetAttr(st, "last_updated", last_updated),
                            "gsid", gsid), "name", name),
            "frequencies", frequencies)

update_from_station(st, data) ==
    IF is_new_pseudoframe(st, data.last_updated) \/ st.temporary
    THEN SetAttr(AssignAll(st, data.last_updated, data.gsid, data.name, data.frequencies),
                 "temporary", data.temporary)
    ELSE st

\* a negative last_updated is an offset from now
EffectiveTime(last_updated, now_) ==
    IF last_updated < 0 THEN last_updated + now_ ELSE last_updated

\* whether the payload record data has the key field
Has(data, field) == field \in DOMAIN data

\* data['last_updated'] is read first; data['name'] and
\* data['frequencies']['active'] are read between the assignments, and the
\* KeyError of a missing one (which merge_airframes catches) leaves the
\* assignments made before it in place
update_from_airframes(st, data, markClean, temporary_, now_) ==
    IF ~ Has(data, "last_updated") THEN st
    ELSE LET last_updated == EffectiveTime(data.last_updated, now_)
         IN  IF /\ is_new_pseudoframe(st, last_updated)
                /\ (st.temporary \/ ~ temporary_ \/ st.last_updated = 0)
             THEN LET s0 == SetAttr(SetAttr(st, "last_updated", last_updated),
                                    "gsid", data.id)
                  IN  IF ~ Has(data, "name") THEN s0
                      ELSE IF ~ Has(data, "active") THEN SetAttr(s0, "name", data.name)
                      ELSE LET s1 == SetAttr(AssignAll(st, last_updated, data.id,
                                                       data.name, SortAsc(data.active)),
                                             "temporary", temporary_)
                           IN  IF markClean \/ temporary_ THEN mark_clean(s1) ELSE s1
             ELSE st

update_from_squitter(st, data, last_updated) ==
    LET nf == SortAsc(data.freqs)
    IN  IF st.temporary \/ is_new_pseudoframe(st, last_updated) \/ nf # st.frequencies
        THEN AssignAll(st, last_updated, data.id, data.name, nf)
        ELSE st

update_from_hfnpdu_Always(st, data, last_updated) ==
    IF data.heard_on_freqs # <<>>
    THEN AssignAll(st, last_updated, data.id, data.name, SortAsc(data.heard_on_freqs))
    ELSE st

update_from_hfnpdu(st, data, last_updated) ==
    IF (st.temporary \/ st.last_updated = 0) /\ data.heard_on_freqs # <<>>
    THEN AssignAll(st, last_updated, data.id, data.name, SortAsc(data.heard_on_freqs))
    ELSE st

\* GroundStation.dict: None (here <<>>) for a temporary record
StationDict(st) ==
    IF st.temporary THEN <<>>
    ELSE <<[id |-> st.gsid, name |-> st.name, active |-> st.frequencies,
            last_updated |-> st.last_updated]>>

is_valid(st, now_) ==
    st.last_updated >= now_ - GS_EXPIRY /\ st.frequencies # <<>>

----------------------------------------------------------------------------
(* GroundStationCache: stations_by_id is a dict, so it keeps the order in  *)
(* which its keys were inserted; it is a sequence of [key, st] entries.    *)

RegKeys(by_id) == {by_id[i].key : i \in 1..Len(by_id)}

RegIndex(by_id, k) == CHOOSE i \in 1..Len(by_id) : by_id[i].key = k

\* defaultdict(GroundStation).__getitem__: a missing key is inserted
RegTouch(by_id, k) ==
    IF k \in RegKeys(by_id) THEN by_id
    ELSE Append(by_id, [key |-> k, st |-> DefaultStation])

RegGet(by_id, k) ==
    IF k \in RegKeys(by_id) THEN by_id[RegIndex(by_id, k)].st ELSE DefaultStation

RegSet(by_id, k, st) == [by_id EXCEPT ![RegIndex(by_id, k)].st = st]

RegDel_Soft(by_id, k) ==
    LET i == RegIndex(by_id, k)
    IN  IF by_id[i].st.frequencies # <<>>
        THEN [by_id EXCEPT ![i].st.frequencies = <<>>]
        ELSE SubSeq(by_id, 1, i - 1) \o SubSeq(by_id, i + 1, Len(by_id))

RegDel(by_id, k) ==
    LET i == RegIndex(by_id, k)
    IN  SubSeq(by_id, 1, i - 1) \o SubSeq(by_id, i + 1, Len(by_id))

\* the station of key k updated by Upd(_), created first when missing
RegUpdate(by_id, k, Upd(_)) ==
    LET touched == RegTouch(by_id, k)
    IN  RegSet(touched, k, Upd(RegGet(touched, k)))

\* self.last: None, the text read by load(), or the dict last written
LastNone == [kind |-> "none", snap |-> <<>>]

LastText(snap) == [kind |-> "text", snap |-> snap]

LastDict(snap) == [kind |-> "dict", snap |-> snap]

\* GroundStationCache.__init__ without load()
NewCache(path) ==
    [stations_by_id |-> <<>>, stations_by_name |-> [n \in {} |-> UNKNOWN], last |-> LastNone,
     path |-> path, writes |-> 0, rewrites |-> 0]

\* GroundStationCache.dict
RECURSIVE CacheDictOf(_)
CacheDictOf(by_id) ==
    IF by_id = <<>> THEN <<>>
    ELSE StationDict(by_id[1].st) \o CacheDictOf(SubSeq(by_id, 2, Len(by_id)))

\* GroundStationCache.update_lookups: {gs.name: gs for gs in stations if
\* gs.name}; of two stations with one name the later one stays
update_lookups(by_id) ==
    LET named == {i \in 1..Len(by_id) : by_id[i].st.name \notin {NoName, ""}}
        names == {by_id[i].st.name : i \in named}
    IN  [n \in names |->
            by_id[SetMax({i \in named : by_id[i].st.name = n})].key]

\* the loop of prune_expired over list(stations_by_id.values()): an invalid
\* station is deleted under the key station.gsid, if that key is present
RECURSIVE PruneLoop(_, _, _)
PruneLoop(by_id, snapshot, now_) ==
    IF snapshot = <<>> THEN by_id
    ELSE LET e == snapshot[1]
             rest == SubSeq(snapshot, 2, Len(snapshot))
         IN  IF ~ is_valid(e.st, now_) /\ e.st.gsid \in RegKeys(by_id)
             THEN PruneLoop(RegDel(by_id, e.st.gsid), rest, now_)
             ELSE PruneLoop(by_id, rest, now_)

prune_expired_NoLookups(cache, now_) ==
    [cache EXCEPT !.stations_by_id =
                      PruneLoop(cache.stations_by_id, cache.stations_by_id, now_)]

prune_expired(cache, now_) ==
    LET by_id == PruneLoop(cache.stations_by_id, cache.stations_by_id, now_)
    IN  [cache EXCEPT !.stations_by_id = by_id,
                      !.stations_by_name = update_lookups(by_id)]

\* "if current_dict != self.last": a dict never equals the text load() read
save_differs(current_dict, last) == current_dict # last

\* GroundStationCache.save: writes when the current dict differs from
\* self.last; the map() of mark_clean is never consumed, so it marks nothing.
\* writes counts the calls of path.write_text, rewrites those of them whose
\* snapshot equals the snapshot last written or read
save(cache) ==
    LET current_dict == LastDict(CacheDictOf(cache.stations_by_id))
    IN  IF cache.path /\ save_differs(current_dict, cache.last)
        THEN [cache EXCEPT !.last = current_dict, !.writes = @ + 1,
                           !.rewrites = IF /\ cache.last.kind # "none"
                                           /\ cache.last.snap = current_dict.snap
                                        THEN @ + 1 ELSE @]
        ELSE cache

\* whether save() comes to self.path.write_text
save_writes(cache) ==
    cache.path /\ save_differs(LastDict(CacheDictOf(cache.stations_by_id)), cache.last)

\* save() when write_text raises: self.last was assigned before it
save_failed(cache) ==
    [cache EXCEPT !.last = LastDict(CacheDictOf(cache.stations_by_id))]

\* the loop of merge_airframes over airframes['ground_stations']
RECURSIVE AirframesLoop(_, _, _, _, _)
AirframesLoop(by_id, stations, markClean, temporary_, now_) ==
    IF stations = <<>> THEN by_id
    ELSE LET gs == stations[1]
             Upd(st) == update_from_airframes(st, gs, markClean, temporary_, now_)
         IN  AirframesLoop(RegUpdate(by_id, gs.id, Upd),
                           SubSeq(stations, 2, Len(stations)),
                           markClean, temporary_, now_)

merge_airframes(cache, airframes, markClean, now_) ==
    LET by_id == AirframesLoop(cache.stations_by_id, airframes.ground_stations,
                               markClean, airframes.is_temporary, now_)
    IN  save(prune_expired([cache EXCEPT !.stations_by_id = by_id], now_))

\* the two loops of merge_packet: spdu.gs_status, then lpdu.hfnpdu.freq_data
RECURSIVE SquitterLoop(_, _, _)
SquitterLoop(by_id, gs_status, last_updated) ==
    IF gs_status = <<>> THEN by_id
    ELSE LET Upd(st) == update_from_squitter(st, gs_status[1], last_updated)
         IN  SquitterLoop(RegUpdate(by_id, gs_status[1].id, Upd),
                          SubSeq(gs_status, 2, Len(gs_status)), last_updated)

RECURSIVE HfnpduLoop(_, _, _)
HfnpduLoop(by_id, freq_data, last_updated) ==
    IF freq_data = <<>> THEN by_id
    ELSE LET Upd(st) == update_from_hfnpdu(st, freq_data[1], last_updated)
         IN  HfnpduLoop(RegUpdate(by_id, freq_data[1].id, Upd),
                        SubSeq(freq_data, 2, Len(freq_data)), last_updated)

merge_packet(cache, hfdl, now_) ==
    LET by_id == HfnpduLoop(SquitterLoop(cache.stations_by_id, hfdl.gs_status, hfdl.t),
                            hfdl.freq_data, hfdl.t)
    IN  save(prune_expired([cache EXCEPT !.stations_by_id = by_id], now_))

\* the loop of merge over other.stations_by_id.values(), keyed by gs.gsid
RECURSIVE MergeLoop(_, _)
MergeLoop(by_id, others) ==
    IF others = <<>> THEN by_id
    ELSE LET gs == others[1].st
             Upd(st) == update_from_station(st, gs)
         IN  MergeLoop(RegUpdate(by_id, gs.gsid, Upd), SubSeq(others, 2, Len(others)))

merge(cache, other, now_) ==
    LET by_id == MergeLoop(cache.stations_by_id, other.stations_by_id)
    IN  save(prune_expired([cache EXCEPT !.stations_by_id = by_id], now_))

\* the file at self.path: missing or empty, or the text of a document
NoText == [text |-> FALSE, doc |-> [ground_stations |-> <<>>, is_temporary |-> FALSE]]

\* GroundStationCache.load: self.last is the text read, then
\* merge_airframes(json.loads(s), mark_clean=True)
load(cache, s, now_) ==
    IF cache.path /\ s.text
    THEN merge_airframes([cache EXCEPT !.last = LastText(s.doc.ground_stations)],
                         s.doc, TRUE, now_)
    ELSE cache

\* GroundStationCache.pruned_dict, as the document the watcher parses
pruned_dict(cache, now_) ==
    [ground_stations |-> CacheDictOf(prune_expired(cache, now_).stations_by_id),
     is_temporary |-> FALSE]

\* GroundStationCache.frequencies(key) for an integer key: the lookup
\* inserts a default record for a key that is missing
frequencies_of(cache, key) == RegGet(cache.stations_by_id, key).frequencies

TouchKey(cache, key) ==
    [cache EXCEPT !.stations_by_id = RegTouch(@, key)]

\* GroundStationWatcher.parse_airframes: a fresh in-memory cache
parse_airframes(data, now_) == merge_airframes(NewCache(FALSE), data, FALSE, now_)

----------------------------------------------------------------------------
(* HFDLListener *)

\* a naive factor applied to the sample size for the radio's aliasing filter
\* (0.9), as the fraction FILTER_NUM / FILTER_DEN
FILTER_NUM == 9

FILTER_DEN == 10

\* watch_stderr: "if self.recoverable_error_count > 10"
RECOVERABLE_LIMIT == 10

\* HFDLListener.process = None
NoProcess == 0

\* seconds the run loop sleeps before it starts a subprocess (--sdr-settle)
SDR_SETTLE_TIME == 5

\* the argument of run's "await asyncio.sleep(self.sdr_settle)" in the round
\* that follows restarts subprocess starts
settle_delay_Backoff(sdr_settle, restarts) == sdr_settle * (restarts + 1)

settle_delay(sdr_settle, restarts) == sdr_settle

bandwidth_for_interval(interval) == interval[Len(interval)] - interval[1]

\* bisect.bisect_right on a sorted list
bisect_right(s, x) == Cardinality({j \in 1..Len(s) : s[j] <= x})

\* sample_rate_for(sample_size, sample_rates); ok is FALSE for its ValueError
sample_rate_for(sample_size, sample_rates) ==
    LET size == sample_size * 1000
        ix == bisect_right(sample_rates, size)
    IN  IF sample_rates = <<>> THEN [ok |-> TRUE, rate |-> size]
        ELSE IF ix >= Len(sample_rates) THEN [ok |-> FALSE, rate |-> 0]
        ELSE [ok |-> TRUE, rate |-> sample_rates[ix + 1]]

\* HFDLListener.dumphfdl_commandline: the sample rate and the frequency
\* arguments; ok is FALSE when it raises (no frequency, or no sample rate)
dumphfdl_commandline(freqs, sample_rates) ==
    IF freqs = <<>> THEN [ok |-> FALSE, sample_rate |-> 0, freqs |-> <<>>]
    ELSE LET r == sample_rate_for((bandwidth_for_interval(freqs) * FILTER_DEN)
                                      \div FILTER_NUM, sample_rates)
         IN  [ok |-> r.ok, sample_rate |-> r.rate, freqs |-> freqs]

NoCmd == [ok |-> FALSE, sample_rate |-> 0, freqs |-> <<>>]

\* HFDLListener.listen: self.frequencies = frequencies
listen_frequencies_KeepOld(old, freqs, hasTask) == IF hasTask THEN old ELSE freqs

listen_frequencies(old, freqs, hasTask) == freqs

\* HFDLListener.terminate: with a process, process.terminate(); with none,
\* "logger.debugger" raises AttributeError
terminate_signals(proc) == proc # NoProcess

terminate_raises(proc) == proc = NoProcess

\* HFDLListener.kill: only with a process does it set killed
kill_sets_killed(proc) == proc # NoProcess

\* run: "await self.process.wait()" returns once the process has ended
wait_returns_Early(state) == TRUE

wait_returns(state) == state = "exited"

\* no telemetry pipe made yet, no PacketWatcher task
NoFifo == [made |-> 0, exists |-> FALSE, watching |-> {}]

\* temp_fifo: os.mkfifo of a new pipe in a new directory
temp_fifo(f) == [f EXCEPT !.made = @ + 1, !.exists = TRUE]

\* the end of temp_fifo's with block: fifo.unlink()
temp_fifo_done(f) == [f EXCEPT !.exists = FALSE]

\* PacketWatcher.start on the pipe made last: a task reading that pipe
PacketWatcher_start(f) == [f EXCEPT !.watching = @ \cup {f.made}]

\* PacketWatcher.stop: enabled = False and task.cancel(), after which the
\* task publishes nothing more; self.packet_watcher is the watcher started
\* last
PacketWatcher_stop_Late(f) == f

PacketWatcher_stop(f) == [f EXCEPT !.watching = {}]

\* HFDLListener.reset_recoverable_error_count
reset_recoverable_error_count_Keep(count) == count

reset_recoverable_error_count(count) == 0

\* one line of watch_stderr: the counter after it, whether it calls
\* terminate(), and whether the loop goes on to the next line
LineKinds == {"fatal", "recoverable", "other"}

watch_stderr_line_NoBreak(kind, count, proc) ==
    LET c == IF kind = "recoverable" THEN count + 1 ELSE count
        term == kind = "fatal" \/ (kind = "recoverable" /\ c > RECOVERABLE_LIMIT)
    IN  [count |-> c, terminate |-> term,
         goesOn |-> kind # "fatal" /\ proc # NoProcess]

watch_stderr_line_NoRestart(kind, count, proc) ==
    LET c == IF kind = "recoverable" THEN count + 1 ELSE count
        term == kind = "recoverable" /\ c > RECOVERABLE_LIMIT
    IN  [count |-> c, terminate |-> term,
         goesOn |-> ~ term /\ proc # NoProcess]

watch_stderr_line(kind, count, proc) ==
    LET c == IF kind = "recoverable" THEN count + 1 ELSE count
        term == kind = "fatal" \/ (kind = "recoverable" /\ c > RECOVERABLE_LIMIT)
    IN  [count |-> c, terminate |-> term,
         goesOn |-> ~ term /\ proc # NoProcess]

----------------------------------------------------------------------------
(* GroundStationWatcher *)

\* the lookups self.ground_station_cache[n] / frequencies(n) for each n of
\* ids in turn
RECURSIVE TouchAll(_, _)
TouchAll(cache, ids) ==
    IF ids = <<>> THEN cache
    ELSE TouchAll(TouchKey(cache, ids[1]), SubSeq(ids, 2, Len(ids)))

\* refresh: all(self.ground_station_cache.frequencies(core_id) for core_id
\* in self.core_ids)
CoreComplete_Always(cache, core_ids) == TRUE

CoreComplete(cache, core_ids) ==
    \A i \in 1..Len(core_ids) : frequencies_of(cache, core_ids[i]) # <<>>

\* best_pool: add_stations over the generator of the fringe stations, each
\* looked up as the loop comes to it
RECURSIVE FringeLoop(_, _, _, _)
FringeLoop(cache, frequencies, ids, w) ==
    IF ids = <<>> THEN [ok |-> TRUE, pool |-> frequencies, cache |-> cache]
    ELSE LET c == TouchKey(cache, ids[1])
             r == PoolExtend(frequencies, frequencies_of(c, ids[1]), PivotNone,
                             w.ignore_ranges, BandwidthOrDefault(w.maximum_bandwidth))
         IN  IF r.ok THEN FringeLoop(c, r.pool, SubSeq(ids, 2, Len(ids)), w)
             ELSE [ok |-> FALSE, pool |-> r.pool, cache |-> c]

\* the frequency lists of self.ground_station_cache.stations, in dict order
StationFreqs(by_id) == [i \in 1..Len(by_id) |-> by_id[i].st.frequencies]

\* best_pool after the core pools: the fringe stations, then the fill
BestPoolRest(c1, actual, w) ==
    Let(FringeLoop(c1, actual, w.fringe_ids, w), LAMBDA fringe :
        IF ~ fringe.ok THEN [ok |-> FALSE, pool |-> <<>>, cache |-> fringe.cache]
        ELSE IF w.skip_fill
        THEN [ok |-> TRUE, pool |-> fringe.pool, cache |-> fringe.cache]
        ELSE Let(PoolAddStations(fringe.pool,
                                 StationFreqs(fringe.cache.stations_by_id), PivotNone,
                                 w.ignore_ranges,
                                 BandwidthOrDefault(w.maximum_bandwidth)),
                 LAMBDA fill :
                     [ok |-> fill.ok, pool |-> IF fill.ok THEN fill.pool ELSE <<>>,
                      cache |-> fringe.cache]))

\* best_pool: which of the two core pools becomes actual_pool
choose_core_pool_TieHigh(prefer, low, high) ==
    IF prefer = "high" THEN high
    ELSE IF prefer = "low" THEN low
    ELSE IF Len(high) >= Len(low) THEN high
    ELSE low

choose_core_pool(prefer, low, high) ==
    IF prefer = "high" THEN high
    ELSE IF prefer = "low" THEN low
    ELSE IF Len(high) > Len(low) THEN high
    ELSE low

\* the two core pools and the one chosen, before best_pool has built them
NoCore == [low |-> <<>>, high |-> <<>>, actual |-> <<>>]

\* best_pool; ok is FALSE when an extend raises IndexError
best_pool(cache, w) ==
    Let(TouchAll(cache, w.core_ids), LAMBDA c1 :
    Let([i \in 1..Len(w.core_ids) |-> frequencies_of(c1, w.core_ids[i])], LAMBDA core :
    Let(PoolAddStations(<<>>, core, <<0>>, w.ignore_ranges,
                        BandwidthOrDefault(w.maximum_bandwidth)), LAMBDA low :
    Let(PoolAddStations(<<>>, core, <<0 - 1>>, w.ignore_ranges,
                        BandwidthOrDefault(w.maximum_bandwidth)), LAMBDA high :
        IF ~ low.ok \/ ~ high.ok
        THEN [ok |-> FALSE, pool |-> <<>>, cache |-> c1, core |-> NoCore]
        ELSE Let(choose_core_pool(w.prefer, low.pool, high.pool), LAMBDA actual :
             Let(BestPoolRest(c1, actual, w), LAMBDA rest :
                 [ok |-> rest.ok, pool |-> rest.pool, cache |-> rest.cache,
                  core |-> [low |-> low.pool, high |-> high.pool,
                            actual |-> actual]]))))))

\* choose_best_frequencies: "if best_frequencies != self.last"
choose_differs_Always(best_frequencies, last) == TRUE

choose_differs(best_frequencies, last) == best_frequencies # last

\* refresh up to its outcome: the registry after the sources are merged and
\* the core stations looked up, and "incomplete" (ValueError), "error"
\* (IndexError in best_pool) or "chosen" with the list and whether
\* on_update is called with it
RefreshOutcome(c4, w) ==
    IF ~ CoreComplete(c4, w.core_ids)
    THEN [outcome |-> "incomplete", cache |-> c4, computed |-> <<>>,
          called |-> FALSE, last |-> w.last, core |-> NoCore]
    ELSE Let(best_pool(c4, w), LAMBDA b :
             IF ~ b.ok
             THEN [outcome |-> "error", cache |-> b.cache, computed |-> <<>>,
                   called |-> FALSE, last |-> w.last, core |-> b.core]
             ELSE [outcome |-> "chosen", cache |-> b.cache, computed |-> b.pool,
                   called |-> choose_differs(b.pool, w.last), core |-> b.core,
                   last |-> IF choose_differs(b.pool, w.last) THEN b.pool ELSE w.last])

\* the list "sources" of refresh: the registry's own pruned view, the
\* directory URL, each backup URL, the static table; doc is what the source
\* answers (for "cached" it is computed when the loop comes to it)
NoDoc == [ground_stations |-> <<>>, is_temporary |-> FALSE]

Sources(remoteDoc, backupDocs, fallbackDoc) ==
    <<[name |-> "cached", doc |-> NoDoc], [name |-> "remote", doc |-> remoteDoc]>>
    \o [i \in 1..Len(backupDocs) |-> [name |-> "backup", doc |-> backupDocs[i]]]
    \o <<[name |-> "fallback", doc |-> fallbackDoc]>>

SourceData(cache, source, now_) ==
    IF source.name = "cached" THEN pruned_dict(cache, now_) ELSE source.doc

\* "for name, source in sources": parse and merge each; merged lists the
\* sources merged so far, sufficientAt the position of the first source
\* after whose merge every core station had frequencies (0: none yet)
RECURSIVE RefreshLoop_EarlyExit(_, _, _, _, _, _)
RefreshLoop_EarlyExit(cache, sources, core_ids, now_, merged, sufficientAt) ==
    IF sources = <<>> \/ sufficientAt # 0
    THEN [cache |-> cache, merged |-> merged, sufficientAt |-> sufficientAt]
    ELSE Let(parse_airframes(SourceData(cache, sources[1], now_), now_), LAMBDA parsed :
         Let(merge(cache, parsed, now_), LAMBDA c :
             RefreshLoop_EarlyExit(c, Tail(sources), core_ids, now_,
                         Append(merged, sources[1].name),
                         IF sufficientAt = 0 /\ CoreComplete(c, core_ids)
                         THEN Len(merged) + 1 ELSE sufficientAt)))

RECURSIVE RefreshLoop(_, _, _, _, _, _)
RefreshLoop(cache, sources, core_ids, now_, merged, sufficientAt) ==
    IF sources = <<>>
    THEN [cache |-> cache, merged |-> merged, sufficientAt |-> sufficientAt]
    ELSE Let(parse_airframes(SourceData(cache, sources[1], now_), now_), LAMBDA parsed :
         Let(merge(cache, parsed, now_), LAMBDA c :
             RefreshLoop(c, Tail(sources), core_ids, now_,
                         Append(merged, sources[1].name),
                         IF sufficientAt = 0 /\ CoreComplete(c, core_ids)
                         THEN Len(merged) + 1 ELSE sufficientAt)))

refresh(cache, w, remoteDoc, backupDocs, fallbackDoc, now_) ==
    Let(prune_expired(cache, now_), LAMBDA c0 :
    Let(RefreshLoop(c0, Sources(remoteDoc, backupDocs, fallbackDoc), w.core_ids,
                    now_, <<>>, 0), LAMBDA l :
    Let(TouchAll(l.cache, w.core_ids), LAMBDA c4 :
    Let(RefreshOutcome(c4, w), LAMBDA o :
        [outcome |-> o.outcome, cache |-> o.cache, computed |-> o.computed,
         called |-> o.called, last |-> o.last,
         merged |-> l.merged, sufficientAt |-> l.sufficientAt, core |-> o.core]))))

----------------------------------------------------------------------------
(* The inputs of the registry's operations *)

\* the station ids the registry's payloads name
StationIds == {1}

\* the clock starts inside a pseudoframe window, well past the horizon
StartTime == 40 * SQUITTER_FRAME_TIME + 200

\* the name a payload gives for a station id
NameOf(id) == IF id = 1 THEN "A" ELSE "B"

\* frequency lists as payloads give them: empty, not yet sorted, or with a
\* frequency listed twice
FreqLists == {<<>>, <<1>>, <<3, 2>>, <<1, 1>>}

\* timestamps of incoming data: now, earlier in the same pseudoframe window,
\* and older than the freshness horizon
PacketTimes(now_) == {now_, now_ - 100, now_ - GS_EXPIRY - 400}

\* fallback.fake_now
fake_now == 0 - 3600

\* last_updated of a directory record: a timestamp, or an offset from now
DirectoryTimes(now_) == PacketTimes(now_) \cup {fake_now}

DirectoryRecords(now_) ==
    {[id |-> i, name |-> NameOf(i), active |-> f, last_updated |-> t] :
        i \in StationIds, f \in FreqLists, t \in DirectoryTimes(now_)}

\* directory records that lack the name, the frequencies or the timestamp
MalformedRecords(now_) ==
    {[id |-> i, active |-> <<1>>, last_updated |-> now_] : i \in StationIds}
    \cup {[id |-> i, name |-> NameOf(i), last_updated |-> now_] : i \in StationIds}
    \cup {[id |-> i, name |-> NameOf(i), active |-> <<1>>] : i \in StationIds}

\* a directory document: at most one station record, temporary or not
DirectoryDocs(now_) ==
    {[ground_stations |-> g, is_temporary |-> tmp] :
        g \in {<<>>} \cup {<<r>> : r \in DirectoryRecords(now_) \cup MalformedRecords(now_)},
        tmp \in BOOLEAN}

\* the name a squitter gives for a station id after the station was renamed
RenamedTo(id) == "Z"

\* a decoded packet that reaches merge_packet: an SPDU with one gs_status
\* entry or an LPDU with one freq_data entry
Packets(now_) ==
    {[t |-> now_, gs_status |-> <<[id |-> i, name |-> RenamedTo(i), freqs |-> <<1>>]>>,
      freq_data |-> <<>>] : i \in StationIds}
    \cup
    {[t |-> t, gs_status |-> <<[id |-> i, name |-> NameOf(i), freqs |-> f]>>,
      freq_data |-> <<>>] : i \in StationIds, f \in FreqLists, t \in PacketTimes(now_)}
    \cup
    {[t |-> t, gs_status |-> <<>>,
      freq_data |-> <<[id |-> i, name |-> NameOf(i), heard_on_freqs |-> f]>>] :
        i \in StationIds, f \in FreqLists, t \in PacketTimes(now_)}

\* what save() wrote to the file at an earlier run: records of stations that
\* were not temporary, their frequencies sorted
CacheFiles(now_) ==
    {NoText} \cup
    {[text |-> TRUE, doc |-> d] :
        d \in {x \in DirectoryDocs(now_) :
                 /\ ~ x.is_temporary
                 /\ \A i \in 1..Len(x.ground_stations) :
                        /\ x.ground_stations[i] \in DirectoryRecords(now_)
                        /\ x.ground_stations[i].last_updated >= 0
                        /\ x.ground_stations[i].active =
                               SortAsc(x.ground_stations[i].active)}}

----------------------------------------------------------------------------
(* The state of each part before anything has happened to it *)

PoolIdle ==
    /\ pool = <<>>
    /\ ignored_ranges = <<>>
    /\ maximum_bandwidth = DEFAULT_BANDWIDTH
    /\ poolOp = [op |-> "init", ok |-> TRUE, leftOut |-> FALSE]

NoUpdate ==
    [seen |-> FALSE, tempBefore |-> FALSE, stale |-> FALSE, changed |-> FALSE,
     taken |-> FALSE, hadTime |-> FALSE, sameFreqs |-> FALSE, freqs |-> <<>>,
     nameBefore |-> NoName]

RegOp(op, pruned, upd) == [op |-> op, pruned |-> pruned, upd |-> upd]

RegIdle ==
    /\ ground_station_cache = NewCache(TRUE)
    /\ now = StartTime
    /\ regOp = RegOp("init", FALSE, NoUpdate)

SupOp(op, g, kind, had, sig, raised) ==
    [op |-> op, gen |-> g, kind |-> kind, hadProcess |-> had,
     signalled |-> sig, raised |-> raised]

\* the class attributes of HFDLListener; nothing asked of it yet
SupIdle ==
    /\ listener_frequencies = <<>>
    /\ dumphfdl_task = FALSE
    /\ runPc = "none"
    /\ cmd = NoCmd
    /\ process = NoProcess
    /\ procState = "none"
    /\ termAsked = FALSE
    /\ killed = FALSE
    /\ recoverable_error_count = 0
    /\ packet_watcher = FALSE
    /\ fifo = NoFifo
    /\ errWatchers = {}
    /\ gen = 0
    /\ supOp = SupOp("init", 0, "none", FALSE, FALSE, FALSE)
    /\ supHist = [lastRequested |-> <<>>, requestAtBuild |-> <<>>,
                  startedWith |-> <<>>, killCalled |-> FALSE,
                  startedAfterKill |-> FALSE, sinceReset |-> 0,
                  recTerms |-> [g \in 1..MaxGen |-> 0],
                  sinceExit |-> 0, startDelay |-> 0,
                  alive |-> {}, runTasks |-> 0, exitsSeen |-> 0]

\* the class attributes of GroundStationWatcher and what __init__ sets
DefaultWatcher ==
    [core_ids |-> <<>>, fringe_ids |-> <<>>, skip_fill |-> FALSE,
     prefer |-> "none", maximum_bandwidth |-> 3, ignore_ranges |-> <<>>,
     last |-> <<>>, backup_urls |-> <<>>]

WatchOp(op, outcome, computed, called, merged, sufficientAt, core) ==
    [op |-> op, outcome |-> outcome, computed |-> computed, called |-> called,
     merged |-> merged, sufficientAt |-> sufficientAt, core |-> core]

NoWatchHist ==
    [emitted |-> <<>>, prevEmitted |-> <<>>, prevComputed |-> <<>>, cycles |-> 0]

\* no task is running, no merge has begun
LoopIdle ==
    eventLoop = [running |-> "none", source |-> 0,
                 phase |-> [watcher |-> "idle", packets |-> "await"],
                 merged |-> <<>>, sufficientAt |-> 0,
                 telemetrySeen |-> FALSE, telemetrySince |-> FALSE]

\* watcher.run() has not been started
WatchIdle ==
    /\ watcher = DefaultWatcher
    /\ watchPc = "none"
    /\ watchOp = WatchOp("init", "none", <<>>, FALSE, <<>>, 0, NoCore)
    /\ watchHist = NoWatchHist
    /\ LoopIdle

\* the event loop of the run command is running
MainAlive == watchPc # "ended"

----------------------------------------------------------------------------
(* The registry's specification: a registry that was just constructed,     *)
(* then any merge / prune / lookup calls, with the clock advancing         *)

\* what an update of record before by the data of station id, timestamped
\* ts, found; whether it changed id, name, frequencies or last_updated, and
\* whether the record then holds all four as the data gave them
Observed(before, after, id, name, ts, freqs) ==
    [seen |-> TRUE,
     tempBefore |-> before.temporary,
     stale |-> (ts \div SQUITTER_FRAME_TIME) <= (before.last_updated \div SQUITTER_FRAME_TIME),
     changed |-> \/ before.gsid # after.gsid
                 \/ before.name # after.name
                 \/ before.frequencies # after.frequencies
                 \/ before.last_updated # after.last_updated,
     taken |-> /\ after.gsid = id
               /\ after.name = name
               /\ after.frequencies = SortAsc(freqs)
               /\ after.last_updated = ts,
     hadTime |-> before.last_updated # 0,
     sameFreqs |-> SortAsc(freqs) = before.frequencies,
     freqs |-> freqs,
     nameBefore |-> before.name]

ResetWrites(cache) == [cache EXCEPT !.writes = 0, !.rewrites = 0]

\* GroundStationCache.__init__ goes on with load() when it has a path
Load(s) ==
    /\ regOp.op = "init"
    /\ ground_station_cache' = load(ground_station_cache, s, now)
    /\ regOp' = RegOp("load", s.text, NoUpdate)
    /\ UNCHANGED now
    /\ UNCHANGED notRegVars

MergeAirframes(doc, markClean) ==
    /\ ground_station_cache' =
           merge_airframes(ResetWrites(ground_station_cache), doc, markClean, now)
    /\ regOp' = RegOp("merge_airframes", TRUE,
           IF doc.ground_stations = <<>> THEN NoUpdate
           ELSE LET gs == doc.ground_stations[1]
                    before == RegGet(ground_station_cache.stations_by_id, gs.id)
                    after == update_from_airframes(before, gs, markClean,
                                                   doc.is_temporary, now)
                IN  Observed(before, after, gs.id,
                             IF Has(gs, "name") THEN gs.name ELSE NoName,
                             IF Has(gs, "last_updated")
                             THEN EffectiveTime(gs.last_updated, now) ELSE 0,
                             IF Has(gs, "active") THEN gs.active ELSE <<>>))
    /\ UNCHANGED now
    /\ UNCHANGED notRegVars

MergePacket(hfdl) ==
    /\ ground_station_cache' = merge_packet(ResetWrites(ground_station_cache), hfdl, now)
    /\ regOp' =
           IF hfdl.gs_status # <<>>
           THEN LET d == hfdl.gs_status[1]
                    before == RegGet(ground_station_cache.stations_by_id, d.id)
                IN  RegOp("squitter", TRUE,
                          Observed(before, update_from_squitter(before, d, hfdl.t),
                                   d.id, d.name, hfdl.t, d.freqs))
           ELSE LET d == hfdl.freq_data[1]
                    before == RegGet(ground_station_cache.stations_by_id, d.id)
                IN  RegOp("hfnpdu", TRUE,
                          Observed(before, update_from_hfnpdu(before, d, hfdl.t),
                                   d.id, d.name, hfdl.t, d.heard_on_freqs))
    /\ UNCHANGED now
    /\ UNCHANGED notRegVars

\* merge(parse_airframes(doc)), as refresh does for each of its sources
MergeParsed(doc) ==
    LET other == parse_airframes(doc, now)
    IN  /\ ground_station_cache' = merge(ResetWrites(ground_station_cache), other, now)
        /\ regOp' = RegOp("merge", TRUE,
               IF other.stations_by_id = <<>> THEN NoUpdate
               ELSE LET gs == other.stations_by_id[1].st
                        before == RegGet(ground_station_cache.stations_by_id, gs.gsid)
                    IN  Observed(before, update_from_station(before, gs),
                                 gs.gsid, gs.name, gs.last_updated, gs.frequencies))
        /\ UNCHANGED now
        /\ UNCHANGED notRegVars

PruneExpired ==
    /\ ground_station_cache' = prune_expired(ResetWrites(ground_station_cache), now)
    /\ regOp' = RegOp("prune_expired", TRUE, NoUpdate)
    /\ UNCHANGED now
    /\ UNCHANGED notRegVars

\* GroundStationCache.frequencies(key)
Lookup(key) ==
    /\ ground_station_cache' = TouchKey(ResetWrites(ground_station_cache), key)
    /\ regOp' = RegOp("frequencies", FALSE, NoUpdate)
    /\ UNCHANGED now
    /\ UNCHANGED notRegVars

Tick(step) ==
    /\ now + step <= StartTime + MaxTicks * GS_EXPIRY
    /\ now' = now + step
    /\ regOp' = RegOp("tick", FALSE, NoUpdate)
    /\ UNCHANGED ground_station_cache
    /\ UNCHANGED notRegVars

RegNext ==
    \/ \E s \in CacheFiles(now) : Load(s)
    \/ \E doc \in DirectoryDocs(now), mc \in BOOLEAN : MergeAirframes(doc, mc)
    \/ \E hfdl \in Packets(now) : MergePacket(hfdl)
    \/ \E doc \in DirectoryDocs(now) : MergeParsed(doc)
    \/ PruneExpired
    \/ \E k \in StationIds : Lookup(k)
    \/ Tick(GS_EXPIRY)

RegInit ==
    /\ RegIdle
    /\ PoolIdle
    /\ SupIdle
    /\ WatchIdle

SpecReg == RegInit /\ [][RegNext]_vars

----------------------------------------------------------------------------
(* The pool's specification: a fresh pool, then any add / extend /        *)
(* add_stations calls                                                      *)

BandwidthArgs == {0, 2, 3}

IgnoredChoices == {<<>>, <<<<2, 2>>>>}

\* the frequency lists of the stations handed to add_stations
StationChoices == {<<>>, <<1, MaxFreq>>, <<2, 3>>}

LeftOut(cands, frequencies) == \E c \in cands : c \notin SetOf(frequencies)

PoolInit ==
    /\ pool = <<>>
    /\ ignored_ranges \in IgnoredChoices
    /\ maximum_bandwidth \in {BandwidthOrDefault(a) : a \in BandwidthArgs}
    /\ poolOp = [op |-> "init", ok |-> TRUE, leftOut |-> FALSE]
    /\ RegIdle
    /\ SupIdle
    /\ WatchIdle

Add(frequency) ==
    /\ pool' = PoolAdd(pool, frequency, ignored_ranges, maximum_bandwidth)
    /\ poolOp' = [op |-> "add", ok |-> TRUE, leftOut |-> LeftOut({frequency}, pool')]
    /\ UNCHANGED <<ignored_ranges, maximum_bandwidth>>
    /\ UNCHANGED notPoolVars

Extend(cands, pivot) ==
    LET r == PoolExtend(pool, cands, pivot, ignored_ranges, maximum_bandwidth)
    IN  /\ pool' = r.pool
        /\ poolOp' = [op |-> "extend", ok |-> r.ok, leftOut |-> LeftOut(SetOf(cands), r.pool)]
        /\ UNCHANGED <<ignored_ranges, maximum_bandwidth>>
        /\ UNCHANGED notPoolVars

AddStations(stationFreqs, pivot) ==
    LET r == PoolAddStations(pool, stationFreqs, pivot, ignored_ranges, maximum_bandwidth)
    IN  /\ pool' = r.pool
        /\ poolOp' = [op |-> "add_stations", ok |-> r.ok,
                      leftOut |-> LeftOut(UNION {SetOf(stationFreqs[i]) :
                                                  i \in 1..Len(stationFreqs)}, r.pool)]
        /\ UNCHANGED <<ignored_ranges, maximum_bandwidth>>
        /\ UNCHANGED notPoolVars

PoolNext ==
    \/ \E f \in Freqs \cup {NoneFreq} : Add(f)
    \/ \E c \in SeqsUpTo(Freqs, MaxLen), p \in Pivots : Extend(c, p)
    \/ \E s \in SeqsUpTo(StationChoices, 2), p \in Pivots : AddStations(s, p)

SpecPool == PoolInit /\ [][PoolNext]_vars

----------------------------------------------------------------------------
(* The supervisor's specification: an HFDLListener that is asked to listen *)
(* and to kill, its run task, the decoder process and its stderr lines,    *)
(* and the packets its PacketWatcher publishes                             *)

\* the frequency lists the supervisor is asked to listen to
FreqSets == {<<1>>, <<1, 3>>}

\* HFDLListener.sample_rates
SampleRates == <<2000, 4000>>

\* listen(frequencies), as it acts on the supervisor
ListenEffect(freqs) ==
    /\ listener_frequencies' =
           listen_frequencies(listener_frequencies, freqs, dumphfdl_task)
    /\ dumphfdl_task' = TRUE
    /\ runPc' = IF dumphfdl_task THEN runPc ELSE "top"
    /\ termAsked' = (termAsked \/ (dumphfdl_task /\ terminate_signals(process)))
    /\ supOp' = SupOp("listen", gen, "none", process # NoProcess,
                      dumphfdl_task /\ terminate_signals(process),
                      dumphfdl_task /\ terminate_raises(process))
    /\ supHist' = [supHist EXCEPT !.lastRequested = freqs,
                                  !.sinceExit = IF dumphfdl_task THEN @ ELSE 0,
                                  !.runTasks = IF dumphfdl_task THEN @ ELSE @ + 1]
    /\ UNCHANGED <<cmd, process, procState, killed, recoverable_error_count,
                   packet_watcher, fifo, errWatchers, gen>>

Listen(freqs) ==
    /\ ListenEffect(freqs)
    /\ UNCHANGED notSupVars

\* run: "while not self.killed", a new fifo, the old packet watcher
\* stopped, up to "await asyncio.sleep(self.sdr_settle)"
RunEnter ==
    /\ MainAlive
    /\ runPc = "top"
    /\ IF killed
       THEN runPc' = "done" /\ UNCHANGED <<packet_watcher, fifo>>
       ELSE /\ runPc' = "settle"
            /\ packet_watcher' = FALSE
            /\ fifo' = IF gen > 0 THEN PacketWatcher_stop(temp_fifo(fifo))
                       ELSE temp_fifo(fifo)
    /\ supOp' = SupOp("enter", gen, "none", process # NoProcess, FALSE, FALSE)
    /\ UNCHANGED <<listener_frequencies, dumphfdl_task, cmd, process, procState,
                   termAsked, killed, recoverable_error_count, errWatchers,
                   gen, supHist>>
    /\ UNCHANGED notSupVars

\* run: after the settle, the command line is built from self.frequencies
\* and the counter reset, up to "await asyncio.create_subprocess_exec";
\* an exception there is answered with sys.exit(1)
SettleDone ==
    /\ MainAlive
    /\ runPc = "settle"
    /\ LET c == dumphfdl_commandline(listener_frequencies, SampleRates)
       IN  IF c.ok
           THEN /\ cmd' = c
                /\ recoverable_error_count' = 0
                /\ runPc' = "spawn"
                /\ supHist' = [supHist EXCEPT !.sinceReset = 0,
                                   !.requestAtBuild = supHist.lastRequested,
                                   !.sinceExit = @ + settle_delay(SDR_SETTLE_TIME, gen)]
           ELSE /\ runPc' = "exited"
                /\ UNCHANGED <<cmd, recoverable_error_count, supHist>>
    /\ supOp' = SupOp("build", gen, "none", process # NoProcess, FALSE, FALSE)
    /\ UNCHANGED <<listener_frequencies, dumphfdl_task, process, procState,
                   termAsked, killed, packet_watcher, fifo, errWatchers, gen>>
    /\ UNCHANGED notSupVars

\* run: the process is created, the packet watcher and the stderr watcher
\* started, up to "await self.process.wait()"
Spawned ==
    /\ MainAlive
    /\ runPc = "spawn"
    /\ gen < MaxGen
    /\ gen' = gen + 1
    /\ process' = gen + 1
    /\ procState' = "running"
    /\ termAsked' = FALSE
    /\ packet_watcher' = TRUE
    /\ fifo' = PacketWatcher_start(fifo)
    /\ errWatchers' = errWatchers \cup {gen + 1}
    /\ runPc' = "wait"
    /\ supOp' = SupOp("start", gen + 1, "none", TRUE, FALSE, FALSE)
    /\ supHist' = [supHist EXCEPT !.startedWith = cmd.freqs,
                       !.startedAfterKill = supHist.killCalled,
                       !.startDelay = supHist.sinceExit,
                       !.alive = @ \cup {gen + 1}]
    /\ UNCHANGED <<listener_frequencies, dumphfdl_task, cmd, killed,
                   recoverable_error_count>>
    /\ UNCHANGED notSupVars

\* run: process.wait() returns; self.process = None, the packet watcher is
\* stopped, the fifo removed, and the loop goes round
WaitReturns ==
    /\ MainAlive
    /\ runPc = "wait"
    /\ wait_returns(procState)
    /\ process' = NoProcess
    /\ packet_watcher' = FALSE
    /\ fifo' = temp_fifo_done(PacketWatcher_stop(fifo))
    /\ runPc' = "top"
    /\ supOp' = SupOp("finished", gen, "none", process # NoProcess, FALSE, FALSE)
    /\ supHist' = [supHist EXCEPT !.exitsSeen = @ + 1]
    /\ UNCHANGED <<listener_frequencies, dumphfdl_task, cmd, procState,
                   termAsked, killed, recoverable_error_count, errWatchers,
                   gen>>
    /\ UNCHANGED notSupVars

\* the decoder process ends because it was signalled
TermDelivered ==
    /\ procState = "running"
    /\ termAsked
    /\ procState' = "exited"
    /\ supOp' = SupOp("exit", gen, "none", process # NoProcess, FALSE, FALSE)
    /\ supHist' = [supHist EXCEPT !.sinceExit = 0, !.alive = @ \ {gen}]
    /\ UNCHANGED <<listener_frequencies, dumphfdl_task, runPc, cmd, process,
                   termAsked, killed, recoverable_error_count, packet_watcher,
                   fifo, errWatchers, gen>>
    /\ UNCHANGED notSupVars

\* the decoder process ends by itself
ProcDies ==
    /\ procState = "running"
    /\ ~ termAsked
    /\ procState' = "exited"
    /\ supOp' = SupOp("exit", gen, "none", process # NoProcess, FALSE, FALSE)
    /\ supHist' = [supHist EXCEPT !.sinceExit = 0, !.alive = @ \ {gen}]
    /\ UNCHANGED <<listener_frequencies, dumphfdl_task, runPc, cmd, process,
                   termAsked, killed, recoverable_error_count, packet_watcher,
                   fifo, errWatchers, gen>>
    /\ UNCHANGED notSupVars

\* watch_stderr of generation g reads one line
StderrLine(g, kind) ==
    /\ MainAlive
    /\ g \in errWatchers
    /\ recoverable_error_count <= RECOVERABLE_LIMIT + MaxGen
    /\ LET r == watch_stderr_line(kind, recoverable_error_count, process)
           sig == r.terminate /\ terminate_signals(process)
       IN  /\ recoverable_error_count' = r.count
           /\ termAsked' = (termAsked \/ sig)
           /\ errWatchers' = IF r.goesOn THEN errWatchers ELSE errWatchers \ {g}
           /\ supOp' = SupOp("line", g, kind, process # NoProcess, sig,
                             r.terminate /\ terminate_raises(process))
           /\ supHist' = [supHist EXCEPT
                  !.sinceReset = IF kind = "recoverable" THEN @ + 1 ELSE @,
                  !.recTerms[g] = IF kind = "recoverable" /\ sig THEN @ + 1 ELSE @]
    /\ UNCHANGED <<listener_frequencies, dumphfdl_task, runPc, cmd, process,
                   procState, killed, packet_watcher, fifo, gen>>
    /\ UNCHANGED notSupVars

\* watch_stderr of generation g reaches the end of its stream, which the
\* process of that generation has left
StderrEOF(g) ==
    /\ MainAlive
    /\ g \in errWatchers
    /\ g # gen \/ procState = "exited"
    /\ errWatchers' = errWatchers \ {g}
    /\ supOp' = SupOp("eof", g, "none", process # NoProcess, FALSE, FALSE)
    /\ UNCHANGED <<listener_frequencies, dumphfdl_task, runPc, cmd, process,
                   procState, termAsked, killed, recoverable_error_count,
                   packet_watcher, fifo, gen, supHist>>
    /\ UNCHANGED notSupVars

\* the packet watcher publishes a packet: the subscriber registered with
\* filter True, reset_recoverable_error_count, runs
Telemetry ==
    \E g \in fifo.watching :
    /\ MainAlive
    /\ recoverable_error_count' = reset_recoverable_error_count(recoverable_error_count)
    /\ supOp' = SupOp("packet", g,
                      IF recoverable_error_count > 0 THEN "counting" ELSE "none",
                      process # NoProcess, FALSE, FALSE)
    /\ supHist' = [supHist EXCEPT !.sinceReset = 0]
    /\ UNCHANGED <<listener_frequencies, dumphfdl_task, runPc, cmd, process,
                   procState, termAsked, killed, packet_watcher, fifo, errWatchers,
                   gen>>
    /\ UNCHANGED notSupVars

\* kill(), as it acts on the supervisor
KillEffect ==
    /\ killed' = (killed \/ kill_sets_killed(process))
    /\ termAsked' = (termAsked \/ process # NoProcess)
    /\ process' = NoProcess
    /\ supOp' = SupOp("kill", gen, "none", process # NoProcess,
                      process # NoProcess, FALSE)
    /\ supHist' = [supHist EXCEPT !.killCalled = TRUE]
    /\ UNCHANGED <<listener_frequencies, dumphfdl_task, runPc, cmd, procState,
                   recoverable_error_count, packet_watcher, fifo, errWatchers, gen>>

Kill ==
    /\ ~ killed
    /\ KillEffect
    /\ UNCHANGED notSupVars

SupNext ==
    \/ \E f \in FreqSets : Listen(f)
    \/ RunEnter
    \/ SettleDone
    \/ Spawned
    \/ WaitReturns
    \/ TermDelivered
    \/ ProcDies
    \/ \E g \in 1..MaxGen, k \in LineKinds : StderrLine(g, k)
    \/ \E g \in 1..MaxGen : StderrEOF(g)
    \/ Telemetry
    \/ Kill

SupInit ==
    /\ SupIdle
    /\ PoolIdle
    /\ RegIdle
    /\ WatchIdle

SpecSup == SupInit /\ [][SupNext]_vars

\* the event loop runs a task that is ready, and a process that was
\* signalled to end does end
SpecSupFair ==
    /\ SupInit
    /\ [][SupNext]_vars
    /\ WF_vars(RunEnter)
    /\ WF_vars(SettleDone)
    /\ WF_vars(Spawned)
    /\ WF_vars(WaitReturns)
    /\ WF_vars(TermDelivered)

----------------------------------------------------------------------------
(* The run command's specification: GroundStationWatcher.run refreshes,    *)
(* sleeps and refreshes again; its callback is run's frequencies_updated,  *)
(* which calls listen; an exception that leaves watcher.run ends the       *)
(* command after listener.kill().  The supervisor's run task and the       *)
(* decoder process go on beside it, and the clock advances.                *)

\* the core station ids the command is given
CoreChoices == {<<1>>, <<2>>}

\* what the directory URL answers: nothing usable, or a document with
\* station 2
RemoteDocs(now_) ==
    {[ground_stations |-> <<>>, is_temporary |-> FALSE]} \cup
    {[ground_stations |-> <<[id |-> 2, name |-> NameOf(2), active |-> f,
                             last_updated |-> now_ - 100]>>,
      is_temporary |-> FALSE] : f \in {<<2>>, <<4>>}}

\* fallback.ALL_FREQUENCIES, with one station
FallbackDoc ==
    [ground_stations |-> <<[id |-> 1, name |-> NameOf(1), active |-> <<4, 3, 1>>,
                            last_updated |-> fake_now]>>,
     is_temporary |-> FALSE]

\* what a backup URL answers: a document marked temporary, with station 2
BackupDoc ==
    [ground_stations |-> <<[id |-> 2, name |-> NameOf(2), active |-> <<4>>,
                            last_updated |-> fake_now]>>,
     is_temporary |-> TRUE]

\* DUMPHFDL_BACKUP_URL: empty, or one URL
BackupChoices == {<<>>, <<"backup">>}

\* --prefer: not given, or one of the two fixed preferences
PreferChoices == {"none", "low", "high"}

\* the watcher's maximum_bandwidth: the span of the static table's station
\* fits it at neither value, and at the lower one only two of its
\* frequencies that are next to each other do
WatchBandwidths == {2, 3}

\* frequencies_updated raises IndexError for an empty list, before listen
UpdatedRaises(new_frequencies) == new_frequencies = <<>>

\* one pass of the loop of watcher.run: refresh(), then the first sleep
\* how refresh() ends, r being what it came to: the callback and listen,
\* or the exception that ends the command after listener.kill()
RefreshEnds(r) ==
    LET listens == r.outcome = "chosen" /\ r.called /\ ~ UpdatedRaises(r.computed)
        raises == \/ r.outcome # "chosen"
                  \/ r.called /\ UpdatedRaises(r.computed)
                  \/ listens /\ dumphfdl_task /\ terminate_raises(process)
    IN  /\ ground_station_cache' = r.cache
        /\ regOp' = RegOp("refresh", FALSE, NoUpdate)
        /\ watcher' = [watcher EXCEPT !.last = r.last]
        /\ watchPc' = IF raises THEN "ended" ELSE "sleep"
        /\ watchOp' = WatchOp("refresh",
                              IF r.outcome = "chosen" /\ raises THEN "raised"
                              ELSE r.outcome,
                              r.computed, r.called, r.merged, r.sufficientAt,
                              r.core)
        /\ watchHist' =
               IF r.outcome = "chosen"
               THEN [emitted |-> IF r.called THEN r.computed ELSE watchHist.emitted,
                     prevEmitted |-> watchHist.emitted,
                     prevComputed |-> watchOp.computed,
                     cycles |-> IF watchHist.cycles < 2 THEN watchHist.cycles + 1 ELSE 2]
               ELSE watchHist
        /\ IF listens THEN ListenEffect(r.computed)
           ELSE IF raises THEN KillEffect
           ELSE UNCHANGED supVars
        /\ UNCHANGED now
        /\ UNCHANGED poolVars

Refresh(remoteDoc) ==
    /\ watchPc = "refresh"
    /\ \E r \in {refresh(ResetWrites(ground_station_cache), watcher, remoteDoc,
                        [i \in 1..Len(watcher.backup_urls) |-> BackupDoc],
                        FallbackDoc, now)} : RefreshEnds(r)
    /\ UNCHANGED loopVars

\* the snapshot files the run command may find at the registry's path: one
\* station record, inside the freshness horizon or older than it
SnapshotFiles(now_) ==
    {s \in CacheFiles(now_) :
        /\ s.text
        /\ s.doc.ground_stations # <<>>
        /\ s.doc.ground_stations[1].active = <<1>>
        /\ s.doc.ground_stations[1].last_updated # now_}

\* the run command constructs GroundStationCache(path), which loads the
\* snapshot, before the watcher's first refresh
WatchLoad(s) ==
    /\ watchPc = "refresh"
    /\ watchOp.op = "init"
    /\ regOp.op = "init"
    /\ ground_station_cache' = load(ground_station_cache, s, now)
    /\ regOp' = RegOp("load", s.text, NoUpdate)
    /\ watchOp' = WatchOp("load",
                          IF s.doc.ground_stations[1].last_updated < now - GS_EXPIRY
                          THEN "stale" ELSE "fresh",
                          <<>>, FALSE, <<>>, 0, NoCore)
    /\ UNCHANGED <<now, watcher, watchPc, watchHist>>
    /\ UNCHANGED <<poolVars, supVars, loopVars>>

\* the sleeps of watch_interval are over
WatchWakes ==
    /\ watchPc = "sleep"
    /\ watchPc' = "refresh"
    /\ UNCHANGED <<watcher, watchOp, watchHist>>
    /\ UNCHANGED <<poolVars, regVars, supVars, loopVars>>

WatchNext ==
    \/ \E s \in SnapshotFiles(now) : WatchLoad(s)
    \/ \E d \in RemoteDocs(now) : Refresh(d)
    \/ WatchWakes
    \/ Tick(GS_EXPIRY)
    \/ RunEnter
    \/ SettleDone
    \/ Spawned
    \/ WaitReturns
    \/ TermDelivered
    \/ ProcDies

WatchInit ==
    /\ watcher \in {[DefaultWatcher EXCEPT !.core_ids = c, !.skip_fill = sf,
                                            !.backup_urls = b, !.prefer = p,
                                            !.maximum_bandwidth = bw] :
                       c \in CoreChoices, sf \in BOOLEAN, b \in BackupChoices,
                       p \in PreferChoices, bw \in WatchBandwidths}
    /\ watchPc = "refresh"
    /\ watchOp = WatchOp("init", "none", <<>>, FALSE, <<>>, 0, NoCore)
    /\ watchHist = NoWatchHist
    /\ LoopIdle
    /\ PoolIdle
    /\ RegIdle
    /\ SupIdle

SpecWatch == WatchInit /\ [][WatchNext]_vars

----------------------------------------------------------------------------
(* The event loop's specification: the tasks of the run command share one  *)
(* asyncio event loop, on which a task runs until it awaits.  refresh()    *)
(* and publish() are taken in the steps of their registry merges (the      *)
(* updates of the records, prune_expired, save), so that what may come     *)
(* between two steps is decided by where the tasks await.                  *)

\* where a task gives the event loop to the other tasks: watcher.run only
\* in its sleeps (refresh has no await), watch_fifo only while it waits for
\* the next line (publish and merge_packet have no await)
awaits_Anywhere(task, at) == TRUE

awaits(task, at) ==
    \/ task = "watcher" /\ at \in {"sleep", "ended"}
    \/ task = "packets" /\ at = "await"

\* the event loop can run a step of task
LoopFree(task) == eventLoop.running \in {"none", task}

\* which task is running after a step of task that took it to at
Handover(task, at) == IF awaits(task, at) THEN "none" ELSE task

\* the lines that reach merge_packet: squitters of station 1
LoopPackets(now_) ==
    {p \in Packets(now_) :
        /\ p.t = now_
        /\ p.gs_status # <<>>
        /\ p.gs_status[1].freqs # <<>>}

\* lines that are not a complete packet: text that is not JSON, and a packet
\* without its timestamp
MalformedPackets == {[raw |-> "text"], [gs_status |-> <<>>, freq_data |-> <<>>]}

\* PacketWatcher.publish raises before any subscriber is called: json.loads
\* on text that is not JSON, HFDLPacketInfo on a packet without packet['t']
publish_raises(hfdl) == ~ Has(hfdl, "t")

\* refresh: the list of sources is built, then prune_expired()
RefreshBegin ==
    /\ watchPc = "refresh"
    /\ LoopFree("watcher")
    /\ ground_station_cache' = prune_expired(ResetWrites(ground_station_cache), now)
    /\ regOp' = RegOp("prune_expired", TRUE, NoUpdate)
    /\ watchPc' = "merging"
    /\ eventLoop' = [eventLoop EXCEPT !.running = Handover("watcher", "merging"),
                                      !.source = 1,
                                      !.phase.watcher = "fetch",
                                      !.merged = <<>>,
                                      !.sufficientAt = 0,
                                      !.telemetrySince = FALSE]
    /\ UNCHANGED <<now, watcher, watchOp, watchHist>>
    /\ UNCHANGED <<poolVars, supVars>>

\* what fetching the directory URL comes to: a JSON document, a refused
\* connection (requests.exceptions.ConnectionError), a response that is not
\* JSON, or a failure of another kind (a request exception that is not a
\* ConnectionError; for a URL that is a path, a file that cannot be read)
RemoteAnswers(now_) ==
    {[kind |-> "json", doc |-> d] : d \in RemoteDocs(now_)}
    \cup {[kind |-> k, doc |-> NoDoc] : k \in {"refused", "not json", "other"}}

\* GroundStationWatcher.remote: the document, or {} after one of the two
\* exceptions it catches; raised when the exception is none of them
remote(answer) ==
    CASE answer.kind = "json" -> [raised |-> FALSE, data |-> answer.doc]
      [] answer.kind \in {"refused", "not json"} -> [raised |-> FALSE, data |-> NoDoc]
      [] OTHER -> [raised |-> TRUE, data |-> NoDoc]

\* refresh: source(), parse_airframes, and the loop of merge over the
\* parsed stations; an exception of source() leaves refresh and
\* watcher.run, and the run command ends after listener.kill()
SourceUpdate(answer) ==
    /\ watchPc = "merging"
    /\ eventLoop.phase.watcher = "fetch"
    /\ LoopFree("watcher")
    /\ IF eventLoop.source = 2 /\ remote(answer).raised
       THEN /\ watchPc' = "ended"
            /\ watchOp' = WatchOp("refresh", "unfetched", <<>>, FALSE,
                                  eventLoop.merged, eventLoop.sufficientAt, NoCore)
            /\ KillEffect
            /\ eventLoop' = [eventLoop EXCEPT !.running = Handover("watcher", "ended")]
            /\ UNCHANGED <<ground_station_cache, regOp>>
       ELSE /\ \E parsed \in {parse_airframes(
                                  SourceData(ground_station_cache,
                                             Sources(remote(answer).data,
                                                     [i \in 1..Len(watcher.backup_urls)
                                                         |-> BackupDoc],
                                                     FallbackDoc)[eventLoop.source],
                                             now), now)} :
                   ground_station_cache' =
                       [ground_station_cache EXCEPT
                            !.stations_by_id = MergeLoop(@, parsed.stations_by_id)]
            /\ regOp' = RegOp("merge", FALSE, NoUpdate)
            /\ eventLoop' = [eventLoop EXCEPT
                                 !.running = Handover("watcher", "merging"),
                                 !.phase.watcher = "updated"]
            /\ UNCHANGED <<supVars, watchPc, watchOp>>
    /\ UNCHANGED <<now, watcher, watchHist>>
    /\ UNCHANGED poolVars

\* merge / merge_packet: self.prune_expired()
MergePrune(task) ==
    /\ eventLoop.phase[task] = "updated"
    /\ LoopFree(task)
    /\ ground_station_cache' = prune_expired(ground_station_cache, now)
    /\ regOp' = RegOp("prune_expired", TRUE, NoUpdate)
    /\ eventLoop' = [eventLoop EXCEPT
                         !.running = Handover(task, "merging"),
                         !.phase[task] = "pruned",
                         !.telemetrySince = @ \/ (task = "packets" /\ watchPc = "check")]
    /\ UNCHANGED <<now, watchVars>>
    /\ UNCHANGED <<poolVars, supVars>>

\* after a save() that returned: the watcher goes on with its next source,
\* or to the check of the core stations after the last one
MergeSaved(task) ==
    IF task = "watcher"
    THEN LET names == [i \in 1..(3 + Len(watcher.backup_urls)) |->
                          Sources(NoDoc,
                                  [j \in 1..Len(watcher.backup_urls) |-> BackupDoc],
                                  FallbackDoc)[i].name]
             last == eventLoop.source = Len(names)
         IN  /\ watchPc' = IF last THEN "check" ELSE "merging"
             /\ eventLoop' =
                    [eventLoop EXCEPT
                         !.running = Handover("watcher", "merging"),
                         !.phase.watcher = IF last THEN "idle" ELSE "fetch",
                         !.source = IF last THEN 0 ELSE @ + 1,
                         !.merged = Append(@, names[eventLoop.source]),
                         !.sufficientAt =
                             IF @ = 0 /\ CoreComplete(ground_station_cache',
                                                      watcher.core_ids)
                             THEN eventLoop.source ELSE @]
    ELSE /\ watchPc' = watchPc
         /\ eventLoop' =
                [eventLoop EXCEPT
                     !.running = Handover("packets", "await"),
                     !.phase.packets = "await",
                     !.telemetrySince = @ \/ watchPc = "check"]

\* merge / merge_packet: self.save(); when the snapshot cannot be written,
\* write_text raises: out of refresh and watcher.run, or into watch_fifo's
\* handler and sys.exit(1); either way the run command ends after
\* listener.kill()
MergeSave(task, writable) ==
    /\ eventLoop.phase[task] = "pruned"
    /\ LoopFree(task)
    /\ regOp' = RegOp("save", FALSE, NoUpdate)
    /\ IF ~ writable /\ save_writes(ground_station_cache)
       THEN /\ ground_station_cache' = save_failed(ground_station_cache)
            /\ KillEffect
            /\ IF task = "watcher"
               THEN /\ watchPc' = "ended"
                    /\ watchOp' = WatchOp("refresh", "unsaved", <<>>, FALSE,
                                          eventLoop.merged, eventLoop.sufficientAt,
                                          NoCore)
                    /\ eventLoop' = [eventLoop EXCEPT
                                         !.running = Handover("watcher", "ended")]
               ELSE /\ eventLoop' = [eventLoop EXCEPT !.running = "exit"]
                    /\ UNCHANGED <<watchPc, watchOp>>
       ELSE /\ ground_station_cache' = save(ground_station_cache)
            /\ UNCHANGED <<supVars, watchOp>>
            /\ MergeSaved(task)
    /\ UNCHANGED <<now, watcher, watchHist>>
    /\ UNCHANGED poolVars

\* refresh: the check of the core stations, choose_best_frequencies and
\* the callback, or the ValueError
RefreshCheck ==
    /\ watchPc = "check"
    /\ LoopFree("watcher")
    /\ \E o \in {RefreshOutcome(TouchAll(ground_station_cache, watcher.core_ids),
                                 watcher)} :
           RefreshEnds([outcome |-> o.outcome, cache |-> o.cache,
                        computed |-> o.computed, called |-> o.called,
                        last |-> o.last, merged |-> eventLoop.merged,
                        sufficientAt |-> eventLoop.sufficientAt, core |-> o.core])
    /\ eventLoop' = [eventLoop EXCEPT !.running = Handover("watcher", watchPc')]

\* watch_fifo has a line: publish, up to the loops of merge_packet over the
\* stations the packet names; an exception of publish is answered with
\* sys.exit(1), which stops the event loop, and the run command calls
\* listener.kill() on its way out
PacketUpdate(hfdl) ==
    /\ MainAlive
    /\ packet_watcher
    /\ eventLoop.phase.packets = "await"
    /\ LoopFree("packets")
    /\ IF publish_raises(hfdl)
       THEN /\ KillEffect
            /\ eventLoop' = [eventLoop EXCEPT !.running = "exit"]
            /\ UNCHANGED <<ground_station_cache, regOp>>
       ELSE /\ ground_station_cache' =
                   [ResetWrites(ground_station_cache) EXCEPT
                        !.stations_by_id =
                            HfnpduLoop(SquitterLoop(@, hfdl.gs_status, hfdl.t),
                                       hfdl.freq_data, hfdl.t)]
            /\ regOp' = RegOp("merge_packet", FALSE, NoUpdate)
            /\ recoverable_error_count' =
                   reset_recoverable_error_count(recoverable_error_count)
            /\ eventLoop' = [eventLoop EXCEPT
                                 !.running = Handover("packets", "merging"),
                                 !.phase.packets = "updated",
                                 !.telemetrySeen = TRUE,
                                 !.telemetrySince = @ \/ watchPc = "check"]
            /\ UNCHANGED <<listener_frequencies, dumphfdl_task, runPc, cmd, process,
                           procState, termAsked, killed, packet_watcher, fifo,
                           errWatchers, gen, supOp, supHist>>
    /\ UNCHANGED <<now, watchVars, poolVars>>

\* the other tasks take their turns when no task is running
LoopNext ==
    \/ RefreshBegin
    \/ \E a \in RemoteAnswers(now) : SourceUpdate(a)
    \/ \E task \in {"watcher", "packets"} : MergePrune(task)
    \/ \E task \in {"watcher", "packets"}, writable \in BOOLEAN :
           MergeSave(task, writable)
    \/ RefreshCheck
    \/ \E hfdl \in LoopPackets(now) \cup MalformedPackets : PacketUpdate(hfdl)
    \/ eventLoop.running = "none" /\ WatchWakes
    \/ eventLoop.running = "none" /\ RunEnter
    \/ eventLoop.running = "none" /\ SettleDone
    \/ eventLoop.running = "none" /\ Spawned
    \/ eventLoop.running = "none" /\ TermDelivered
    \/ eventLoop.running = "none" /\ WaitReturns

\* --ignore-ranges: not given, or the one frequency a squitter of the core
\* station may announce as its only one
LoopIgnored == {<<>>, <<<<1, 1>>>>}

LoopInit ==
    /\ watcher \in {[DefaultWatcher EXCEPT !.core_ids = <<1>>, !.ignore_ranges = ig] :
                       ig \in LoopIgnored}
    /\ watchPc = "refresh"
    /\ watchOp = WatchOp("init", "none", <<>>, FALSE, <<>>, 0, NoCore)
    /\ watchHist = NoWatchHist
    /\ LoopIdle
    /\ PoolIdle
    /\ RegIdle
    /\ SupIdle

SpecLoop == LoopInit /\ [][LoopNext]_vars

----------------------------------------------------------------------------
(* C1: after any sequence of add / extend / add_stations on a fresh pool,  *)
(* max(pool) - min(pool) <= maximum_bandwidth and no element of the pool   *)
(* lies inside an ignored closed interval.                                 *)
C1_SpanAndIgnored ==
    /\ pool # <<>> => SetMax(SetOf(pool)) - SetMin(SetOf(pool)) <= maximum_bandwidth
    /\ \A i \in 1..Len(pool) : \A k \in 1..Len(ignored_ranges) :
           ~ (ignored_ranges[k][1] <= pool[i] /\ pool[i] <= ignored_ranges[k][2])

\* an extend that kept two frequencies and turned candidates away, under a
\* bandwidth limit that binds and with ignored ranges set
C1_Witness ==
    /\ poolOp.op = "extend" /\ poolOp.ok
    /\ Len(pool) >= 2
    /\ maximum_bandwidth < MaxFreq
    /\ ignored_ranges # <<>>
    /\ poolOp.leftOut

----------------------------------------------------------------------------
MergeOps == {"merge_airframes", "squitter", "hfnpdu", "merge"}

(* C2, as claimed: for every merge operation on a GroundStation, if the    *)
(* record is not temporary and the incoming timestamp is older than, or in *)
(* the same pseudoframe window as, the stored last_updated, then id, name, *)
(* frequencies and last_updated are unchanged by the update.               *)
C2_MonotonicEveryMerge ==
    (regOp.op \in MergeOps /\ ~ regOp.upd.tempBefore /\ regOp.upd.stale)
        => ~ regOp.upd.changed

(* C2, amended: the same for a record that has a timestamp (last_updated   *)
(* is not 0), except that a squitter is only covered when the frequency    *)
(* set it announces equals the stored one.                                 *)
C2_MonotonicMerge ==
    (/\ regOp.op \in MergeOps /\ ~ regOp.upd.tempBefore /\ regOp.upd.stale
     /\ regOp.upd.hadTime
     /\ (regOp.op = "squitter" => regOp.upd.sameFreqs))
        => ~ regOp.upd.changed

\* a populated, confirmed record was offered other frequencies by a
\* directory snapshot of its own pseudoframe window, and kept its own
C2_Witness ==
    /\ regOp.op = "merge_airframes"
    /\ ~ regOp.upd.tempBefore /\ regOp.upd.stale /\ regOp.upd.hadTime
    /\ ~ regOp.upd.sameFreqs
    /\ ~ regOp.upd.changed

(* C3: after prune_expired returns, and so after merge, merge_airframes    *)
(* and merge_packet return, every station held in stations_by_id is valid. *)
C3_AllValidAfterPrune ==
    regOp.pruned =>
        \A i \in 1..Len(ground_station_cache.stations_by_id) :
            is_valid(ground_station_cache.stations_by_id[i].st, now)

----------------------------------------------------------------------------
(* C4: listen(F) while a subprocess is running asks that subprocess to     *)
(* terminate, and a new subprocess is then started (unless the supervisor  *)
(* is killed in the meantime); every subprocess is started with the        *)
(* frequency list most recently passed to listen when its command line was *)
(* built, so with F when no other request came in between.                 *)
C4_ListenRestarts ==
    /\ []((supOp.op = "listen" /\ supOp.hadProcess) => (supOp.signalled /\ termAsked))
    /\ [](runPc = "wait" => supHist.startedWith = supHist.requestAtBuild)
    /\ \A g \in 0..(MaxGen - 1) :
           (supOp.op = "listen" /\ supOp.hadProcess /\ gen = g) ~> (gen > g \/ killed)

\* listen has just been given a list other than the one the running
\* subprocess was started with, and has asked that subprocess to terminate
C4_Witness ==
    /\ supOp.op = "listen" /\ supOp.signalled
    /\ procState = "running" /\ termAsked
    /\ listener_frequencies # supHist.startedWith
    /\ gen < MaxGen

(* C5: after kill() has been called, in whatever state of the supervisor,  *)
(* no subprocess is started again.                                         *)
C5_KillTerminal == ~ supHist.startedAfterKill

(* C6: a refresh that finds a core station without frequencies after all   *)
(* sources were merged does not end the selection loop, and leaves the     *)
(* supervisor alone.                                                       *)
C6_FailureNotFatal ==
    (watchOp.op = "refresh" /\ watchOp.outcome = "incomplete")
        => (watchPc # "ended" /\ ~ supHist.killCalled)

(* C7: a cycle that computes a list calls the callback exactly when that   *)
(* list differs from the list last handed to the callback (the empty list  *)
(* before the first call); a cycle that computes the list the cycle before *)
(* it computed does not call it; and the list is then the watcher's last.  *)
C7_CallbackOnChange ==
    (watchOp.op = "refresh" /\ watchOp.outcome \in {"chosen", "raised"})
        => /\ watchOp.called <=> (watchOp.computed # watchHist.prevEmitted)
           /\ (watchHist.cycles >= 2 /\ watchOp.computed = watchHist.prevComputed)
                  => ~ watchOp.called
           /\ watcher.last = watchOp.computed

\* a second cycle has computed the list of the first and kept quiet
C7_Witness ==
    /\ watchOp.op = "refresh" /\ watchOp.outcome = "chosen"
    /\ watchHist.cycles >= 2
    /\ watchOp.computed = watchHist.prevComputed
    /\ watchOp.computed # <<>>
    /\ ~ watchOp.called

(* C8: the watcher of one generation's diagnostic lines issues at most one *)
(* terminate request for recoverable errors: the line that takes the       *)
(* counter over the threshold while a subprocess is held issues it, and    *)
(* that watcher reads no further line.                                     *)
C8_TerminateOnce ==
    /\ \A g \in 1..MaxGen :
           /\ supHist.recTerms[g] <= 1
           /\ supHist.recTerms[g] = 1 => g \notin errWatchers
    /\ (/\ supOp.op = "line" /\ supOp.kind = "recoverable" /\ supOp.hadProcess
        /\ recoverable_error_count > RECOVERABLE_LIMIT)
           => (supOp.signalled /\ supHist.recTerms[supOp.gen] = 1)

\* the 11th matching line in a row has just made the watcher of the running
\* subprocess ask for its termination
C8_Witness ==
    /\ supOp.op = "line" /\ supOp.kind = "recoverable" /\ supOp.signalled
    /\ supOp.gen = gen
    /\ recoverable_error_count = RECOVERABLE_LIMIT + 1
    /\ supHist.recTerms[gen] = 1

(* C9: a fatal diagnostic line read while a subprocess is held asks that   *)
(* subprocess to terminate; the run loop only ends when the supervisor was *)
(* killed; and unless it is killed a new subprocess is eventually started, *)
(* with the frequency list current when its command line is built.         *)
C9_FatalRestarts ==
    /\ []((supOp.op = "line" /\ supOp.kind = "fatal" /\ supOp.hadProcess)
              => (supOp.signalled /\ termAsked))
    /\ [](runPc # "exited" /\ (runPc = "done" => killed))
    /\ []((supOp.op = "build" /\ runPc = "spawn") => cmd.freqs = listener_frequencies)
    /\ [](runPc = "wait" => supHist.startedWith = cmd.freqs)
    /\ \A g \in 0..(MaxGen - 1) :
           (supOp.op = "line" /\ supOp.kind = "fatal" /\ supOp.hadProcess /\ gen = g)
               ~> (gen > g \/ killed)

\* the watcher of the running subprocess has just read a fatal line and
\* asked that subprocess to terminate
C9_Witness ==
    /\ supOp.op = "line" /\ supOp.kind = "fatal" /\ supOp.signalled
    /\ supOp.gen = gen /\ gen < MaxGen
    /\ procState = "running" /\ termAsked
    /\ ~ killed

(* C10: the recoverable-error counter is the number of matching lines read *)
(* since the last published packet and the last reset before a subprocess  *)
(* start, and a terminate for recoverable errors is only asked for when    *)
(* that number is above 10.                                                *)
C10_CounterCounts ==
    /\ recoverable_error_count = supHist.sinceReset
    /\ (supOp.op = "line" /\ supOp.kind = "recoverable" /\ supOp.signalled)
           => supHist.sinceReset > RECOVERABLE_LIMIT
    /\ supOp.op \in {"packet", "build"} => recoverable_error_count = 0

\* a published packet has just reset a counter that was not zero, in the
\* second subprocess
C10_Witness ==
    /\ supOp.op = "packet" /\ supOp.kind = "counting"
    /\ recoverable_error_count = 0
    /\ gen >= 2

(* C11: save() performs a write only if the current registry snapshot      *)
(* differs from the snapshot last persisted (last written, or read by      *)
(* load()): no call of write_text, the one inside load() included, writes  *)
(* the snapshot that was last written or read.                             *)
C11_NoRedundantWrite == ground_station_cache.rewrites = 0

(* C12: a directory-snapshot update (update_from_airframes) is applied, so *)
(* that the record holds the id, name, frequency set and timestamp of the  *)
(* incoming record, if the incoming timestamp lies in a later pseudoframe  *)
(* window than the stored last_updated or the local record is temporary;   *)
(* otherwise the record is unchanged.                                      *)
C12_AirframesAppliedIff ==
    (regOp.op = "merge_airframes" /\ regOp.upd.seen) =>
        IF ~ regOp.upd.stale \/ regOp.upd.tempBefore
        THEN regOp.upd.taken
        ELSE ~ regOp.upd.changed

SourceNames(backup_urls) ==
    <<"cached", "remote">> \o [i \in 1..Len(backup_urls) |-> "backup"] \o <<"fallback">>

C15_PoolOnlyWhenCoreComplete ==
    /\ [](watchOp.op = "refresh" =>
             IF \A i \in 1..Len(watcher.core_ids) :
                    frequencies_of(ground_station_cache, watcher.core_ids[i]) # <<>>
             THEN watchOp.outcome # "incomplete"
             ELSE watchOp.outcome = "incomplete" /\ ~ watchOp.called)
    /\ [][(watchPc = "refresh" /\ watchOp'.outcome = "incomplete")
            => /\ watcher'.last = watcher.last
               /\ listener_frequencies' = listener_frequencies
               /\ watchHist' = watchHist]_vars

\* a cycle failed for a core station without frequencies after an earlier
\* cycle had emitted a list
C15_Witness ==
    /\ watchOp.op = "refresh"
    /\ watchOp.outcome = "incomplete"
    /\ watchOp.merged # <<>>
    /\ watcher.last # <<>>
    /\ watchHist.emitted = watcher.last

(* C16: best_pool goes on with the high-pivot core pool when the           *)
(* preference is "high", with the low-pivot core pool when it is "low",    *)
(* and otherwise with the high pool if and only if it holds strictly more  *)
(* frequencies than the low pool; a tie selects the low pool.              *)
C16_CorePoolChoice ==
    (watchOp.op = "refresh" /\ watchOp.outcome \in {"chosen", "raised"}) =>
        LET low == watchOp.core.low
            high == watchOp.core.high
            actual == watchOp.core.actual
        IN  /\ watcher.prefer = "high" => actual = high
            /\ watcher.prefer = "low" => actual = low
            /\ watcher.prefer \notin {"high", "low"} =>
                   /\ (actual = high /\ high # low) <=> Len(high) > Len(low)
                   /\ Len(high) <= Len(low) => actual = low
            /\ \A i \in 1..Len(actual) : \E j \in 1..Len(watchOp.computed) :
                   watchOp.computed[j] = actual[i]

\* without a preference the two core pools tie with different frequencies,
\* and the low pool is the one used
C16_Witness ==
    /\ watchOp.op = "refresh"
    /\ watchOp.outcome = "chosen"
    /\ watcher.prefer = "none"
    /\ Len(watchOp.core.high) = Len(watchOp.core.low)
    /\ watchOp.core.high # watchOp.core.low
    /\ watchOp.core.actual = watchOp.core.low

(* C17: the change callback is invoked only between fully applied registry *)
(* merges: when it runs, every source of the cycle has been merged, no     *)
(* merge that has started (of a refresh source or of a telemetry event) is *)
(* short of its prune or persist step, and no telemetry-driven merge has   *)
(* run since the last source merge of the cycle; and the merges of the two *)
(* tasks never overlap.                                                    *)
C17_CallbackBetweenMerges ==
    /\ [][(watchPc = "check" /\ watchPc' # "check" /\ watchOp'.called)
            => /\ eventLoop.phase.watcher = "idle"
               /\ eventLoop.phase.packets = "await"
               /\ eventLoop.merged = SourceNames(watcher.backup_urls)
               /\ ~ eventLoop.telemetrySince]_vars
    /\ [](eventLoop.phase.packets = "await"
            \/ eventLoop.phase.watcher \in {"idle", "fetch"})

\* the callback has run in a cycle that came after a telemetry-driven merge
C17_Witness ==
    /\ watchPc = "sleep"
    /\ watchOp.op = "refresh"
    /\ watchOp.called
    /\ watchHist.cycles >= 2
    /\ eventLoop.telemetrySeen
    /\ eventLoop.phase.packets = "await"

(* C18: every merge leaves a station record either fully updated (id,      *)
(* name, frequencies and last_updated all as the incoming data gave them)  *)
(* or not changed at all, also when the incoming record lacks a required   *)
(* field.                                                                  *)
C18_AllOrNothing ==
    (regOp.op \in {"merge_airframes", "squitter", "hfnpdu", "merge"} /\ regOp.upd.seen)
        => regOp.upd.taken \/ ~ regOp.upd.changed

(* C19: after any sequence of merge operations, the frequencies of every   *)
(* station in the registry are sorted ascending and hold no value twice.   *)
C19_SortedNoDuplicates ==
    \A k \in 1..Len(ground_station_cache.stations_by_id) :
        LET f == ground_station_cache.stations_by_id[k].st.frequencies
        IN  \A i, j \in 1..Len(f) : i < j => f[i] < f[j]

(* C20: after every registry operation that mutates the id-keyed           *)
(* collection (load, merge, merge_airframes, merge_packet, prune_expired)  *)
(* the name index maps exactly the non-empty names of the stations now in  *)
(* the collection, each to a station that is in the collection under that  *)
(* name: no name of a pruned or renamed station is left in it.             *)
C20_NameIndexCurrent ==
    regOp.op \in {"load", "merge_airframes", "squitter", "hfnpdu", "merge",
                  "prune_expired"} =>
        LET by_id == ground_station_cache.stations_by_id
            index == ground_station_cache.stations_by_name
        IN  /\ \A n \in DOMAIN index :
                   \E k \in 1..Len(by_id) :
                       by_id[k].key = index[n] /\ by_id[k].st.name = n
            /\ \A k \in 1..Len(by_id) :
                   by_id[k].st.name \notin {NoName, ""}
                       => by_id[k].st.name \in DOMAIN index

\* a squitter renamed a station that the index held under its old name,
\* and the index holds the new name only
C20_Witness ==
    /\ regOp.op = "squitter"
    /\ regOp.upd.nameBefore = NameOf(1)
    /\ DOMAIN ground_station_cache.stations_by_name = {RenamedTo(1)}
    /\ RegGet(ground_station_cache.stations_by_id, 1).name = RenamedTo(1)

\* C21: whenever a squitter or a heard-on-frequency update is accepted by a
\* temporary record (a squitter always is, a heard-on-frequency update when
\* it lists frequencies), the record, if the merge keeps it, is afterwards
\* dirty and no longer temporary
C21_AcceptedClearsTemporary ==
    (/\ regOp.op \in {"squitter", "hfnpdu"}
     /\ regOp.upd.seen
     /\ regOp.upd.tempBefore
     /\ (regOp.op = "squitter" \/ regOp.upd.freqs # <<>>))
    => \A i \in 1..Len(ground_station_cache.stations_by_id) :
           ground_station_cache.stations_by_id[i].key \in StationIds
           => /\ ground_station_cache.stations_by_id[i].st.dirty
              /\ ~ ground_station_cache.stations_by_id[i].st.temporary

\* C22: the sample rate of a built command line is the smallest supported
\* rate that is at least the required bandwidth (kHz x 1000), a rate equal
\* to the requirement included, and building fails for a non-empty
\* frequency list only when no supported rate is that large
C22_SmallestSufficientRate ==
    /\ cmd.ok =>
           LET need == ((bandwidth_for_interval(cmd.freqs) * FILTER_DEN)
                            \div FILTER_NUM) * 1000
           IN  /\ cmd.sample_rate >= need
               /\ \A j \in 1..Len(SampleRates) :
                      SampleRates[j] >= need => cmd.sample_rate <= SampleRates[j]
    /\ (supOp.op = "build" /\ runPc = "exited" /\ listener_frequencies # <<>>) =>
           LET need == ((bandwidth_for_interval(listener_frequencies) * FILTER_DEN)
                            \div FILTER_NUM) * 1000
           IN  \A j \in 1..Len(SampleRates) : SampleRates[j] < need

\* C23: the telemetry pipe belongs to one subprocess generation: at most one
\* telemetry watcher is active, an active watcher reads the pipe made last,
\* which still exists, and every record published comes from the pipe made
\* last, so once the next generation's pipe exists the previous watcher has
\* been stopped and nothing of the previous generation is published
C23_PipeOwnedByOneGeneration ==
    /\ Cardinality(fifo.watching) <= 1
    /\ \A g \in fifo.watching : g = fifo.made /\ fifo.exists
    /\ supOp.op = "packet" => supOp.gen = fifo.made
    /\ runPc \in {"settle", "spawn"} => fifo.watching = {}

\* a record is published by the watcher of the second generation's pipe
C23_Witness ==
    /\ supOp.op = "packet"
    /\ supOp.gen = 2
    /\ fifo.made = 2

\* C24: no error arising while the system runs ends the process: the event
\* loop of the run command is never stopped by an exit from one of its
\* tasks, and the supervisor's run loop never leaves through sys.exit
C24_ErrorsNotFatal ==
    /\ eventLoop.running # "exit"
    /\ runPc # "exited"

\* C25: a failure to write the registry snapshot during a merge of refresh
\* does not block frequency selection: the cycle is not ended by it and the
\* decoder is not killed for it
C25_WriteFailureDoesNotBlock ==
    (watchOp.op = "refresh" /\ watchOp.outcome = "unsaved")
        => (watchPc # "ended" /\ ~ supHist.killCalled)

\* C26: a directory source whose fetch fails is skipped: the refresh cycle
\* is not ended by the failure and the decoder is not killed for it
C26_FailedSourceSkipped ==
    (watchOp.op = "refresh" /\ watchOp.outcome = "unfetched")
        => (watchPc # "ended" /\ ~ supHist.killCalled)

\* C27: when best_pool's winning core pool is not empty, the frequencies of
\* fringe and fill stations are added only as fill-ins: the lowest and the
\* highest frequency of the final pool are those of the winning core pool
C27_FillWithinCoreSpan ==
    (/\ watchOp.op = "refresh"
     /\ watchOp.outcome \in {"chosen", "raised"}
     /\ watchOp.core.actual # <<>>)
    => /\ watchOp.computed # <<>>
       /\ watchOp.computed[1] = watchOp.core.actual[1]
       /\ watchOp.computed[Len(watchOp.computed)] =
              watchOp.core.actual[Len(watchOp.core.actual)]

\* C28: every subprocess start comes a settle delay of the configured
\* duration after the previous subprocess exit (after the first request
\* when there was none), whatever the number of starts and failures before
C28_FixedSettleDelay ==
    /\ gen > 0 => supHist.startDelay = SDR_SETTLE_TIME
    /\ runPc = "spawn" => supHist.sinceExit = SDR_SETTLE_TIME

\* a subprocess has just been started again, after one whose diagnostic
\* lines made the supervisor ask it to terminate
C28_Witness ==
    /\ supOp.op = "start"
    /\ gen = 2
    /\ supHist.recTerms[1] = 1
    /\ supHist.startDelay = SDR_SETTLE_TIME

\* C29: a station loaded from the snapshot with a last_updated older than
\* the freshness horizon is pruned from the registry, and after the first
\* refresh the frequency lookup for its id yields an empty result
C29_StaleSnapshotEmpty ==
    /\ []((watchOp.op = "load" /\ watchOp.outcome = "stale")
              => \A id \in StationIds :
                     id \notin RegKeys(ground_station_cache.stations_by_id))
    /\ [][(watchOp.op = "load" /\ watchOp.outcome = "stale" /\ watchOp'.op = "refresh")
            => \A id \in StationIds :
                   frequencies_of(ground_station_cache', id) = <<>>]_vars

\* C30: pruning is idempotent: in every registry state, prune_expired called
\* twice at one instant leaves the stations and the name index that one
\* call leaves, and a prune_expired() that follows another changes neither
C30_PruneIdempotent ==
    /\ [](Let(prune_expired(ground_station_cache, now), LAMBDA once :
          Let(prune_expired(once, now), LAMBDA twice :
              /\ twice.stations_by_id = once.stations_by_id
              /\ twice.stations_by_name = once.stations_by_name)))
    /\ [][(regOp.op = "prune_expired" /\ regOp'.op = "prune_expired")
            => /\ ground_station_cache'.stations_by_id =
                      ground_station_cache.stations_by_id
               /\ ground_station_cache'.stations_by_name =
                      ground_station_cache.stations_by_name]_vars

\* the registry holds a named station whose record has expired, so that a
\* call of prune_expired removes it and its name
C30_Witness ==
    /\ regOp.op = "tick"
    /\ \E i \in 1..Len(ground_station_cache.stations_by_id) :
           LET e == ground_station_cache.stations_by_id[i]
           IN  /\ e.st.frequencies # <<>>
               /\ ~ is_valid(e.st, now)
               /\ e.st.gsid = e.key
               /\ e.st.name \in DOMAIN ground_station_cache.stations_by_name
    /\ prune_expired(ground_station_cache, now).stations_by_id = <<>>

\* C31: add(f) inserts f exactly when f is not None, is not in the pool,
\* lies in no ignored closed interval, and the span of the pool with f is at
\* most maximum_bandwidth (a span equal to maximum_bandwidth included);
\* otherwise the pool is unchanged; after every add the pool is strictly
\* ascending
C31_AddInsertsIff ==
    [][\A f \in Freqs \cup {NoneFreq} :
         Add(f) =>
           LET with == SetOf(pool) \cup {f}
               fits == /\ f # NoneFreq
                       /\ f \notin SetOf(pool)
                       /\ \A k \in 1..Len(ignored_ranges) :
                              ~ (ignored_ranges[k][1] <= f /\ f <= ignored_ranges[k][2])
                       /\ SetMax(with) - SetMin(with) <= maximum_bandwidth
           IN  /\ fits => (SetOf(pool') = with /\ Len(pool') = Len(pool) + 1)
               /\ ~ fits => pool' = pool
               /\ \A i \in 1..Len(pool') - 1 : pool'[i] < pool'[i + 1]]_vars

\* C32: on an empty pool with no ignored ranges and a non-empty ascending
\* candidate list F, extend(F, pivot=0) leaves in the pool exactly the
\* candidates at most maximum_bandwidth above F's lowest frequency, and
\* extend(F, pivot=-1) exactly those at most maximum_bandwidth below F's
\* highest; when all of F fits both leave all of F, sorted
C32_PivotEndsKeepNearest ==
    [][\A F \in SeqsUpTo(Freqs, MaxLen) :
         (/\ F # <<>>
          /\ \A i \in 1..Len(F) - 1 : F[i] <= F[i + 1]
          /\ pool = <<>>
          /\ ignored_ranges = <<>>)
         => /\ Extend(F, <<0>>) =>
                 /\ poolOp'.ok
                 /\ SetOf(pool') = {f \in SetOf(F) : f - F[1] <= maximum_bandwidth}
                 /\ \A i \in 1..Len(pool') - 1 : pool'[i] < pool'[i + 1]
            /\ Extend(F, <<0 - 1>>) =>
                 /\ poolOp'.ok
                 /\ SetOf(pool') = {f \in SetOf(F) : F[Len(F)] - f <= maximum_bandwidth}
                 /\ \A i \in 1..Len(pool') - 1 : pool'[i] < pool'[i + 1]]_vars

\* C33: extend(candidates, pivot) with a non-empty candidate list tries the
\* candidates in ascending distance from a reference frequency: the first
\* candidate for pivot 0, the last candidate for pivot -1, the pool element
\* at the index for another explicit index into a non-empty pool, and with
\* no pivot the pool's midpoint element when the pool is non-empty, else the
\* midpoint of the candidate list; so the pool it leaves is the one that
\* adding in that order leaves
C33_PivotReference ==
    [][\A F \in SeqsUpTo(Freqs, MaxLen) \ {<<>>} : \A p \in Pivots :
         (/\ Extend(F, p)
          /\ (p \in {<<0>>, <<0 - 1>>, PivotNone} \/ (pool # <<>> /\ p[1] < Len(pool))))
         => LET ref == IF p = <<0>> THEN F[1]
                       ELSE IF p = <<0 - 1>> THEN F[Len(F)]
                       ELSE IF p # PivotNone THEN pool[p[1] + 1]
                       ELSE IF pool # <<>> THEN pool[(Len(pool) \div 2) + 1]
                       ELSE F[(Len(F) \div 2) + 1]
            IN  /\ poolOp'.ok
                /\ pool' = AddAll(pool, SortByDistance(F, ref),
                                  ignored_ranges, maximum_bandwidth)]_vars

\* C34: dirty means "changed since last persisted": right after an operation
\* whose save() wrote the snapshot no station of the registry is dirty, and
\* a station that was not dirty is dirty after an operation only if its id,
\* name, frequencies or last_updated changed
C34_DirtySinceLastSave ==
    /\ [](ground_station_cache.writes > 0
            => \A i \in 1..Len(ground_station_cache.stations_by_id) :
                   ~ ground_station_cache.stations_by_id[i].st.dirty)
    /\ [][\A k \in RegKeys(ground_station_cache'.stations_by_id) :
            LET before == RegGet(ground_station_cache.stations_by_id, k)
                after == RegGet(ground_station_cache'.stations_by_id, k)
            IN  (~ before.dirty /\ after.dirty)
                => \/ before.gsid # after.gsid
                   \/ before.name # after.name
                   \/ before.frequencies # after.frequencies
                   \/ before.last_updated # after.last_updated]_vars

\* C35: however listen(), stderr lines, telemetry, process exits and kill()
\* interleave, at most one decoder process is alive and at most one run
\* task was ever created, and a decoder process is created only when every
\* earlier one has ended and run has seen its wait() return
C35_OneProcessOneLoop ==
    /\ [](/\ Cardinality(supHist.alive) <= 1
          /\ supHist.runTasks <= 1)
    /\ [][gen' # gen => /\ gen' = gen + 1
                        /\ supHist.alive = {}
                        /\ supHist.exitsSeen = gen]_vars

\* a second decoder process runs while listen() and kill() were both called
\* before, and stderr lines of the first were read
C35_Witness ==
    /\ gen = 2
    /\ supHist.alive = {2}
    /\ supHist.exitsSeen = 1
    /\ supHist.runTasks = 1
    /\ supHist.killCalled
    /\ supHist.lastRequested # supHist.startedWith

\* C36: a listen(F) that finds the run task settling (no process handle
\* held, the command line not yet built) raises nothing, and the command
\* line built at the end of that settle carries F
C36_ListenWhileSettling ==
    /\ (/\ supOp.op = "listen"
        /\ ~ supOp.hadProcess
        /\ runPc \in {"top", "settle"})
       => ~ supOp.raised
    /\ (supOp.op = "build" /\ runPc = "spawn") => cmd.freqs = supHist.lastRequested

\* C37: the change callback is never called with an empty frequency list,
\* whatever the registry holds and whatever ranges are ignored, and no
\* command line is built for zero frequencies
C37_CallbackNeverEmpty ==
    /\ (watchOp.op = "refresh" /\ watchOp.called) => watchOp.computed # <<>>
    /\ cmd.ok => cmd.freqs # <<>>

\* C38: a stderr line of generation N does not touch generation N+1: a line
\* that the watch_stderr task of an earlier generation reads once a later
\* process has been started neither signals that process nor changes the
\* recoverable-error counter
C38_StaleLinesHarmless ==
    [][\A g \in 1..MaxGen : \A k \in LineKinds :
         (StderrLine(g, k) /\ g < gen)
         => /\ termAsked' = termAsked
            /\ recoverable_error_count' = recoverable_error_count]_vars

\* C39: a temporary record never replaces a confirmed one: after
\* merge_airframes of a document marked temporary, and after the merge of
\* the registry parsed from such a document, every station that was not
\* temporary and had a non-zero last_updated, and that the merge keeps, is
\* still not temporary and has the frequencies it had
C39_TemporaryNeverReplaces ==
    [][\A doc \in {d \in DirectoryDocs(now) : d.is_temporary} :
         (\/ regOp'.op = "merge" /\ MergeParsed(doc)
          \/ regOp'.op = "merge_airframes" /\ \E mc \in BOOLEAN : MergeAirframes(doc, mc))
         => \A k \in RegKeys(ground_station_cache.stations_by_id)
                       \cap RegKeys(ground_station_cache'.stations_by_id) :
                LET before == RegGet(ground_station_cache.stations_by_id, k)
                    after == RegGet(ground_station_cache'.stations_by_id, k)
                IN  (~ before.temporary /\ before.last_updated # 0)
                    => /\ ~ after.temporary
                       /\ after.frequencies = before.frequencies]_vars

\* C40: extend with an empty candidate list raises nothing and leaves the
\* pool as it was, for pivot None, 0 and -1 and for an empty or a non-empty
\* pool; and add_stations over stations of which some have no frequencies
\* raises nothing
C40_EmptyCandidatesTolerated ==
    [][/\ \A p \in {PivotNone, <<0>>, <<0 - 1>>} :
            Extend(<<>>, p) => (poolOp'.ok /\ pool' = pool)
       /\ \A s \in SeqsUpTo(StationChoices, 2) : \A p \in {PivotNone, <<0>>, <<0 - 1>>} :
            AddStations(s, p) => poolOp'.ok]_vars

=============================================================================
